---- MODULE Spec2Model ----
(***************************************************************************)
(* State-machine model of the STT benchmark orchestrator:                  *)
(*   BenchmarkRunner (main.py), BaseSTTModel / ModelFactory (model.py)     *)
(*   and the benchmark endpoints of the dashboard (api.py).                *)
(*                                                                         *)
(* A "run" r is one BenchmarkRunner object together with the execution of  *)
(* its run() method.  Under Spec the runs are successive processes that    *)
(* construct a runner and call run() (main.py, __main__), each of which    *)
(* may be killed at any step; under SpecApi the runs are the benchmark     *)
(* threads that the dashboard process starts.                              *)
(***************************************************************************)
EXTENDS Integers, Sequences, FiniteSets, TLC

\* ------------------------------------------------------------ bounds
MaxModels   == 2    \* entries of config['models']
MaxDatasets == 2    \* entries of config['datasets']
MaxSamples  == 2    \* samples a dataset yields at most
MaxRuns     == 2    \* runs (runner objects) of one behaviour

Runs == 1..MaxRuns

ModelName(i)   == "m" \o ToString(i)
DatasetName(j) == "d" \o ToString(j)

\* ------------------------------------------------------------ configuration
\* ModelFactory._registry after main.py has imported the three adapters
Registry == {"whisper", "wav2vec2", "deepgram"}

\* the adapter classes, and ModelFactory._registry as the decorators of
\* whisper_model.py, wav2vec2_model.py and deepgram_model.py leave it
Classes == {"WhisperModel", "Wav2Vec2Model", "DeepgramModel"}
ImportedRegistry ==
    [t \in Registry |-> CASE t = "whisper"  -> "WhisperModel"
                          [] t = "wav2vec2" -> "Wav2Vec2Model"
                          [] t = "deepgram" -> "DeepgramModel"]

\* the 'type' values a config names here: a registered and an unregistered one
ConfigTypes == {"whisper", "vosk"}

ModelConfigs ==
    { ms \in [1..MaxModels -> [name : {ModelName(i) : i \in 1..MaxModels},
                               type : ConfigTypes, enabled : BOOLEAN]] :
        \A i \in 1..MaxModels : ms[i].name = ModelName(i) }

DatasetConfigs ==
    { ds \in [1..MaxDatasets -> [name : {DatasetName(j) : j \in 1..MaxDatasets},
                                 enabled : BOOLEAN]] :
        \A j \in 1..MaxDatasets : ds[j].name = DatasetName(j) }

\* config.yaml: readable and well formed (ok), or missing / malformed
Configs ==
    { [ok |-> TRUE, models |-> ms, datasets |-> ds] :
        ms \in ModelConfigs, ds \in DatasetConfigs }
    \cup { [ok |-> FALSE, models |-> <<>>, datasets |-> <<>>] }

\* ------------------------------------------------------------ state
VARIABLES
    config,            \* config.yaml, the same for every run
    cache_file,        \* cache_dir / "benchmark_cache.json"
    results_file,      \* results_dir / "results.json"
    started,           \* number of runs started so far
    pc,                \* pc[r]: where run r is in its code
    runner,            \* runner[r]: the fields of the BenchmarkRunner of run r
    frame,             \* frame[r]: the locals of run() / benchmark_model_batch()
    adapters,          \* adapters[r][m]: the adapter object run r built for model m
    hist,              \* hist[r]: what run r has done (history, not program state)
    is_running,        \* api.py global
    benchmark_runner,  \* api.py global: the run whose runner it references, 0 for None
    benchmark_thread,  \* api.py global: the run of the last thread started, 0 for None
    current_sample,    \* api.py global
    status_reply,      \* the last answer of GET /api/benchmark/status
    examples_request,  \* the last GET /api/model/{model_name}/examples
    examples_reply,    \* and its answer
    fn_input,          \* the arguments a function of utils.py / model.py is called with
    fn_output,         \* and what the call returned
    registry           \* ModelFactory._registry: the class registered under each type

vars == << config, cache_file, results_file, started, pc, runner, frame, adapters,
           hist, is_running, benchmark_runner, benchmark_thread, current_sample,
           status_reply, examples_request, examples_reply, fn_input, fn_output,
           registry >>

diskVars == << cache_file, results_file >>
fnVars    == << fn_input, fn_output, registry >>
replyVars == << status_reply, examples_request, examples_reply, fnVars >>
apiVars  == << is_running, benchmark_runner, benchmark_thread, current_sample,
               replyVars >>

\* ------------------------------------------------------------ files
\* A file is absent, or holds text that json.load parses (valid) to data, or
\* holds text it cannot parse (an empty or cut-off file).
NoFile        == [exists |-> FALSE, valid |-> FALSE, data |-> <<>>]
TruncatedFile == [exists |-> TRUE,  valid |-> FALSE, data |-> <<>>]
JsonFile(d)   == [exists |-> TRUE,  valid |-> TRUE,  data |-> d]

\* ------------------------------------------------------------ runner objects
EmptySample == [reference |-> "", hypothesis |-> "", sample_index |-> 0]

\* (the 'message' text, which repeats the other fields, is left out)
IdleStatus ==
    [status |-> "idle", current_model |-> "None", current_dataset |-> "None",
     progress |-> 0, total |-> 0]

\* no request of that kind has been made / answered yet
NoRequest == [model_name |-> "None", limit |-> 0]
NoReply   == [code |-> 0]
NoCall    == [fn |-> "None"]

\* a runner that does not exist (yet, or any more)
NoRunner == [all_results |-> <<>>, current_status |-> IdleStatus,
             sample_callback |-> "None"]

NoModelResults == [model_name |-> "None"]

NoFrame == [model_idx |-> 0, dataset_idx |-> 0, sample_idx |-> 0, samples |-> 0,
            model_results |-> NoModelResults, dataset_results |-> <<>>,
            total_samples |-> 0, processed_samples |-> 0, model |-> "None"]

\* cache_at_start:  the cache file as the constructor found it
\* cached_at_start: the models in the store when run() began
\* finished:        the models whose dataset loop ended with records
\* save_calls:      the models after which _save_cache was called
\* persisted:       the store as the last _save_cache that succeeded wrote it
\* cache_before:    the cache file when the last _save_cache began
\* target:          the store the last _save_cache was called to write
\* in_save:         _save_cache has opened the file and not yet written it
\* (cache_before and target are kept while in_save only)
\* last_save:       how the last _save_cache of the run ended
\* save_failed:     the models whose _save_cache failed
\* failed:          the models whose benchmark_model_batch ended without a
\*                  result
\* model_failure:   "create" / "load" when that step of the current model raised
\* last_dataset:    what load_dataset_samples did for the dataset visited last
\* last_sample:     the outcome of the sample processed last
\* (the last three are about the current model: the next one starts afresh)
NoHist == [cache_at_start |-> "none", cached_at_start |-> {}, finished |-> {}, save_calls |-> {},
           persisted |-> <<>>, cache_before |-> NoFile, target |-> <<>>,
           in_save |-> FALSE, last_save |-> "none", save_failed |-> {},
           failed |-> {}, model_failure |-> "none",
           last_dataset |-> "none", last_sample |-> "none"]

\* an update that is interrupted after its first key: only 'status' is
\* written, or only 'progress' when the call passes no 'status'
TornUpdate(r, kwargs) ==
    LET k == IF "status" \in DOMAIN kwargs THEN "status"
             ELSE IF "progress" \in DOMAIN kwargs THEN "progress"
             ELSE CHOOSE x \in DOMAIN kwargs : TRUE
    IN  [runner EXCEPT ![r].current_status = [@ EXCEPT ![k] = kwargs[k]]]

\* self.current_status.update(kwargs): one dict.update call with string
\* keys, which no other thread can interleave with
update_status(r, kwargs) ==
    [runner EXCEPT ![r].current_status =
        [k \in DOMAIN @ |-> IF k \in DOMAIN kwargs THEN kwargs[k] ELSE @[k]]]

\* ------------------------------------------------------------ cache
\* _load_cache: the parsed file; nothing is assigned when the file is absent,
\* and {} when it cannot be parsed
LoadCache(file) == IF file.exists /\ file.valid THEN file.data ELSE <<>>

\* the cache file as a reader finds it
CacheKind(file) ==
    IF ~file.exists THEN "missing" ELSE IF file.valid THEN "valid" ELSE "corrupt"

\* a _load_cache without the try around open / json.load
CorruptCacheRaises(file) == file.exists /\ ~file.valid

\* _load_cache, "except Exception": no exception of the load gets out
CacheLoadRaises(file) == FALSE

\* ------------------------------------------------------------ initial state
Init ==
    /\ config \in Configs
    /\ cache_file = NoFile
    /\ results_file = NoFile
    /\ started = 0
    /\ pc = [r \in Runs |-> "none"]
    /\ runner = [r \in Runs |-> NoRunner]
    /\ frame = [r \in Runs |-> NoFrame]
    /\ adapters = [r \in Runs |-> <<>>]
    /\ hist = [r \in Runs |-> NoHist]
    /\ is_running = FALSE
    /\ benchmark_runner = 0
    /\ benchmark_thread = 0
    /\ current_sample = EmptySample
    /\ status_reply = NoReply
    /\ examples_request = NoRequest
    /\ examples_reply = NoReply
    /\ fn_input = NoCall
    /\ fn_output = NoReply
    /\ registry = ImportedRegistry


\* ------------------------------------------------------------ adapters
\* BaseSTTModel.__init__: nothing loaded; `referenced` is whether the local
\* variable `model` of benchmark_model_batch still names the object
NewAdapter == [is_loaded |-> FALSE, resources |-> FALSE, referenced |-> TRUE,
               cleanups |-> 0, transcribes |-> 0]

\* BaseSTTModel.cleanup: drops model and processor, clears _is_loaded
Cleaned(a) == [a EXCEPT !.is_loaded = FALSE, !.resources = FALSE, !.cleanups = @ + 1]

\* an object whose last reference goes away without its finalizer running
Unfinalized(a) == [a EXCEPT !.referenced = FALSE]

\* The last reference to the adapter goes away ("del model", or the frame of
\* benchmark_model_batch is released): CPython finalizes the object at once,
\* and __del__ calls cleanup()
Dropped(a) == Cleaned([a EXCEPT !.referenced = FALSE])

\* a factory that builds an adapter for whatever type it is given
AnyTypeRegistered(model_type) == TRUE

\* ModelFactory.create: the type is looked up in the registry
IsRegistered(model_type) == model_type \in Registry

\* ------------------------------------------------------------ iteration
\* a loop over every entry of a config list, enabled or not
NextEntry(entries, after) == IF after < Len(entries) THEN after + 1 ELSE 0

\* the first enabled entry of a config list after position `after`, 0 if none
NextEnabled(entries, after) ==
    LET later == { i \in DOMAIN entries : i > after /\ entries[i].enabled }
    IN  IF later = {} THEN 0 ELSE CHOOSE i \in later : \A j \in later : i <= j

\* a benchmark_model_batch without the cache check
NeverInCache(r, m) == FALSE

\* benchmark_model_batch: "if model_name in self.all_results"
InCache(r, m) == m \in DOMAIN runner[r].all_results

CurModel(r) == config.models[frame[r].model_idx]
CurDataset(r) == config.datasets[frame[r].dataset_idx]

Live(r) == pc[r] \notin {"none", "exited", "crashed"}

\* ------------------------------------------------------------ a process per run
\* A new process is started (python main.py, or one that uses the runner as
\* a library) once the previous one is gone.
StartProcess(r) ==
    /\ r = started + 1
    /\ \A q \in Runs : ~Live(q)
    /\ started' = r
    /\ pc' = [pc EXCEPT ![r] = "init"]
    /\ hist' = [q \in Runs |-> NoHist]
    /\ UNCHANGED << config, diskVars, runner, frame, adapters, apiVars >>

\* the same, with the history of the processes that have ended kept
StartNextProcess(r) ==
    /\ r = started + 1
    /\ \A q \in Runs : ~Live(q)
    /\ started' = r
    /\ pc' = [pc EXCEPT ![r] = "init"]
    /\ UNCHANGED << config, diskVars, runner, frame, adapters, hist, apiVars >>

\* BenchmarkRunner.__init__: reads the config (raises when it cannot), builds
\* the initial status and loads the cache
RunnerInit(r) ==
    /\ pc[r] = "init"
    /\ IF config.ok /\ ~CacheLoadRaises(cache_file)
       THEN /\ runner' = [runner EXCEPT ![r] =
                  [all_results |-> LoadCache(cache_file),
                   current_status |-> IdleStatus,
                   sample_callback |-> "None"]]
            /\ hist' = [hist EXCEPT ![r].cache_at_start = CacheKind(cache_file),
                                    ![r].cached_at_start = DOMAIN LoadCache(cache_file)]
            /\ pc' = [pc EXCEPT ![r] = "wire"]
       ELSE /\ pc' = [pc EXCEPT ![r] = "finally"]
            /\ hist' = [hist EXCEPT ![r].cache_at_start =
                           IF config.ok THEN CacheKind(cache_file) ELSE "none"]
            /\ UNCHANGED runner
    /\ UNCHANGED << config, diskVars, started, frame, adapters, apiVars >>

\* set_sample_callback: the caller registers a progress observer, which may
\* raise when it is called (a run without one goes like a run whose observer
\* never raises)
SetCallback(r) ==
    /\ pc[r] = "wire"
    /\ runner' = [runner EXCEPT ![r].sample_callback = "observer"]
    /\ pc' = [pc EXCEPT ![r] = "run"]
    /\ UNCHANGED << config, diskVars, started, frame, adapters, hist, apiVars >>

\* run(): the first status update
RunStart(r) ==
    /\ pc[r] = "run"
    /\ runner' = update_status(r, [status |-> "running"])
    /\ frame' = [frame EXCEPT ![r] = NoFrame]
    /\ pc' = [pc EXCEPT ![r] = "next_model"]
    /\ UNCHANGED << config, diskVars, started, adapters, hist, apiVars >>

\* run(): the loop over the enabled models, in config order
NextModel(r) ==
    /\ pc[r] = "next_model"
    /\ LET k == NextEnabled(config.models, frame[r].model_idx)
       IN  IF k = 0
           THEN /\ pc' = [pc EXCEPT ![r] = "reports"]
                /\ UNCHANGED frame
           ELSE /\ pc' = [pc EXCEPT ![r] = "bmb"]
                /\ frame' = [frame EXCEPT ![r] = [NoFrame EXCEPT !.model_idx = k]]
    /\ adapters' = [adapters EXCEPT ![r] = <<>>]
    /\ hist' = [hist EXCEPT ![r].model_failure = "none",
                            ![r].last_dataset = "none",
                            ![r].last_sample = "none"]
    /\ UNCHANGED << config, diskVars, started, runner, apiVars >>

\* benchmark_model_batch: a cached model is reported and skipped
CheckCache(r) ==
    /\ pc[r] = "bmb"
    /\ LET m == CurModel(r).name
       IN  IF InCache(r, m)
           THEN /\ runner' = update_status(r, [current_model |-> m])
                /\ pc' = [pc EXCEPT ![r] = "next_model"]
           ELSE /\ runner' = update_status(r, [status |-> "benchmarking",
                                 current_model |-> m])
                /\ pc' = [pc EXCEPT ![r] = "create"]
    /\ UNCHANGED << config, diskVars, started, frame, adapters, hist, apiVars >>

\* ModelFactory.create: ValueError for an unregistered type, else the
\* adapter's constructor, which may raise; both end benchmark_model_batch
CreateModel(r) ==
    /\ pc[r] = "create"
    /\ LET m == CurModel(r).name
       IN  \E ok \in BOOLEAN :
             IF IsRegistered(CurModel(r).type) /\ ok
             THEN /\ adapters' = [adapters EXCEPT ![r] = (m :> NewAdapter) @@ @]
                  /\ frame' = [frame EXCEPT ![r].model = m]
                  /\ pc' = [pc EXCEPT ![r] = "load"]
                  /\ UNCHANGED hist
             ELSE /\ pc' = [pc EXCEPT ![r] = "next_model"]
                  /\ hist' = [hist EXCEPT ![r].model_failure = "create",
                                          ![r].failed = @ \cup {m}]
                  /\ UNCHANGED << adapters, frame >>
    /\ UNCHANGED << config, diskVars, started, runner, apiVars >>


\* model.load_model(): on failure benchmark_model_batch returns None, with no
\* cleanup call of its own: the adapter, with whatever it holds (load_model
\* may have assigned self.model before it raised), is left to the finalizer
LoadModel(r) ==
    /\ pc[r] = "load"
    /\ LET m == frame[r].model
       IN  \E ok, held \in BOOLEAN :
             IF ok
             THEN /\ adapters' = [adapters EXCEPT ![r][m] =
                        [@ EXCEPT !.is_loaded = TRUE, !.resources = TRUE]]
                  /\ frame' = [frame EXCEPT ![r].model_results =
                        [model_name |-> m, datasets |-> <<>>, detailed_results |-> <<>>]]
                  /\ pc' = [pc EXCEPT ![r] = "next_dataset"]
                  /\ UNCHANGED hist
             ELSE /\ adapters' = [adapters EXCEPT ![r][m] =
                        Dropped([@ EXCEPT !.resources = held])]
                  /\ frame' = [frame EXCEPT ![r].model = "None"]
                  /\ pc' = [pc EXCEPT ![r] = "next_model"]
                  /\ hist' = [hist EXCEPT ![r].model_failure = "load",
                                          ![r].failed = @ \cup {m}]
    /\ UNCHANGED << config, diskVars, started, runner, apiVars >>

\* what load_dataset_samples can do: load_dataset raises (caught, []), the
\* iteration over the dataset raises (not caught), or n samples are prepared
DatasetOutcomes ==
    {[kind |-> "load_error", n |-> 0], [kind |-> "iter_error", n |-> 0]}
    \cup {[kind |-> "samples", n |-> n] : n \in 0..MaxSamples}

\* a load_dataset_samples that has no try around load_dataset either
AnyErrorEscapes(out) == out.kind \in {"iter_error", "load_error"}

\* load_dataset_samples: the exception it lets through (the iteration is
\* outside its try); run() catches it and goes on with the next model
Escapes(out) == out.kind = "iter_error"

\* benchmark_model_batch: "if not samples: continue"
SkipsDataset(out) == out.kind = "load_error" \/ (out.kind = "samples" /\ out.n = 0)

\* a run() whose loop has no try/except: the exception ends run()
ErrorEndsRun == "finally"

\* run(), "except Exception ... continue": where an exception of
\* benchmark_model_batch leaves the run
AfterModelError == "next_model"

\* benchmark_model_batch: the loop over the enabled datasets, in config order,
\* with load_dataset_samples
NextDataset(r) ==
    /\ pc[r] = "next_dataset"
    /\ LET k == NextEnabled(config.datasets, frame[r].dataset_idx)
           m == frame[r].model
       IN  IF k = 0
           THEN /\ pc' = [pc EXCEPT ![r] = "cleanup"]
                /\ hist' = [hist EXCEPT ![r].last_sample = "none"]
                /\ UNCHANGED << frame, runner, adapters >>
           ELSE /\ runner' = update_status(r,
                      [current_dataset |-> config.datasets[k].name,
                       status |-> "loading_dataset"])
                /\ \E out \in DatasetOutcomes :
                     /\ hist' = [hist EXCEPT
                           ![r].last_dataset =
                               IF out.kind = "samples" /\ out.n = 0
                               THEN "empty" ELSE out.kind,
                           ![r].last_sample = "none",
                           ![r].failed = IF Escapes(out) THEN @ \cup {m} ELSE @]
                     /\ IF Escapes(out)
                        THEN /\ adapters' = [adapters EXCEPT ![r][m] = Dropped(@)]
                             /\ frame' = [frame EXCEPT ![r].model = "None",
                                             ![r].dataset_idx = k,
                                             ![r].model_results = NoModelResults]
                             /\ pc' = [pc EXCEPT ![r] = AfterModelError]
                        ELSE IF SkipsDataset(out)
                        THEN /\ frame' = [frame EXCEPT ![r].dataset_idx = k]
                             /\ UNCHANGED << pc, adapters >>
                        ELSE /\ frame' = [frame EXCEPT ![r].dataset_idx = k,
                                             ![r].samples = out.n,
                                             ![r].sample_idx = 0,
                                             ![r].dataset_results = <<>>,
                                             ![r].total_samples = @ + out.n]
                             /\ pc' = [pc EXCEPT ![r] = "sample"]
                             /\ UNCHANGED adapters
    /\ UNCHANGED << config, diskVars, started, apiVars >>


\* load_dataset_samples: 'id': f"{dataset_id}_{idx}"
SampleId(d, idx) == d \o "_" \o ToString(idx)

\* what the adapter's transcribe does: it returns a text, or raises
TranscribeOutcomes == {"text", "raises"}

\* a transcribe_with_metrics that lets the adapter's exception through
Unguarded(is_loaded, outcome, length, latency) ==
    IF ~is_loaded THEN [raised |-> "RuntimeError"]
    ELSE IF outcome = "raises" THEN [raised |-> "transcribe"]
    ELSE [raised |-> "None", transcription |-> length, latency |-> latency,
          throughput |-> IF latency > 0 THEN length \div latency ELSE 0]

\* BaseSTTModel.transcribe_with_metrics, for a text of `length` characters
\* and a measured time of `latency` (a text is told by its length here, and
\* the division is the integer one)
transcribe_with_metrics(is_loaded, outcome, length, latency) ==
    IF ~is_loaded THEN [raised |-> "RuntimeError"]
    ELSE LET transcription == IF outcome = "raises" THEN 0 ELSE length
         IN  [raised |-> "None", transcription |-> transcription, latency |-> latency,
              throughput |-> IF latency > 0 THEN transcription \div latency ELSE 0]

\* what else processing one sample can do before the entry is appended:
\* nothing, or a statement of the loop body raises
SampleOutcomes == {"ok", "raise"}

\* the entry appended for a sample (the measured numbers are left out)
ResultEntry(d, idx, out) ==
    [id |-> SampleId(d, idx), dataset |-> d]

\* a loop body that appends the entry whatever happened before
AlwaysAppends(out) == TRUE

\* the body of "for idx, sample in enumerate(samples)": an entry is appended
\* unless the outcome raises before the append
Appends(out) == out # "raise"

\* a loop body that puts the new entry in front
PutFirst(entries, entry) == <<entry>> \o entries

\* "dataset_results.append(result_entry)",
\* "model_results['detailed_results'].append(result_entry)"
AddEntry(entries, entry) == Append(entries, entry)

\* benchmark_model_batch after a dataset's samples: "if dataset_results:"
WithDataset(mr, d, dataset_results) ==
    IF dataset_results # <<>>
    THEN [mr EXCEPT !.datasets =
             (d :> [samples |-> Len(dataset_results),
                    metrics |-> [total_samples |-> Len(dataset_results)]]) @@ @]
    ELSE mr

\* a sample loop whose exceptions leave benchmark_model_batch
ErrorEndsModel(raised, last) ==
    IF raised THEN "next_model" ELSE IF last THEN "next_dataset" ELSE "sample"

\* where the sample loop goes after a sample: "except Exception ... continue"
\* goes on with the next sample like a sample that raised nothing
AfterSample(raised, last) == IF last THEN "next_dataset" ELSE "sample"

\* a loop that counts a sample once it has been recorded
CountRecorded(processed_samples, appended) ==
    IF appended THEN processed_samples + 1 ELSE processed_samples

\* "processed_samples += 1", the first statement of the try: the sample is
\* counted before anything of it can fail
CountAttempt(processed_samples, appended) == processed_samples + 1

\* one sample of the current dataset, and the end of the dataset after the last
ProcessSample(r) ==
    /\ pc[r] = "sample"
    /\ LET m   == frame[r].model
           d   == CurDataset(r).name
           idx == frame[r].sample_idx
           cb  == runner[r].sample_callback
       IN  \E out \in SampleOutcomes, t \in TranscribeOutcomes, cb_raises \in BOOLEAN :
             LET entry == ResultEntry(d, idx, out)
                 result == transcribe_with_metrics(adapters[r][m].is_loaded, t, 1, 1)
                 appended == Appends(out) /\ result.raised = "None"
                 ds_results == IF appended
                               THEN AddEntry(frame[r].dataset_results, entry)
                               ELSE frame[r].dataset_results
                 mr == IF appended
                       THEN [frame[r].model_results EXCEPT
                                !.detailed_results = AddEntry(@, entry)]
                       ELSE frame[r].model_results
                 last == idx + 1 = frame[r].samples
             IN  /\ cb_raises => (cb = "observer" /\ appended)
                 \* (a failed transcription is followed up on its own: with
                 \* another failure in the same sample the program ends up
                 \* as it does for that other failure alone)
                 /\ t = "raises" => (out = "ok" /\ ~cb_raises)
                 /\ runner' = update_status(r,
                       [progress |-> CountAttempt(frame[r].processed_samples, appended),
                        total |-> frame[r].total_samples])
                 /\ adapters' = [adapters EXCEPT ![r][m].transcribes = @ + 1]
                 /\ current_sample' =
                       IF cb = "api" /\ appended
                       THEN [reference |-> "ref_" \o entry.id,
                             hypothesis |-> IF result.transcription = 0 THEN ""
                                            ELSE "hyp_" \o entry.id,
                             sample_index |-> idx]
                       ELSE current_sample
                 /\ frame' = [frame EXCEPT
                       ![r].processed_samples = CountAttempt(@, appended),
                       ![r].sample_idx = idx + 1,
                       ![r].dataset_results = ds_results,
                       ![r].model_results =
                           IF last THEN WithDataset(mr, d, ds_results) ELSE mr]
                 /\ pc' = [pc EXCEPT ![r] =
                       AfterSample(out = "raise" \/ result.raised # "None" \/ cb_raises,
                                   last)]
                 /\ hist' = [hist EXCEPT ![r].last_sample =
                       IF t = "raises" THEN "transcribe_failed"
                       ELSE IF out = "raise" THEN "raised"
                       ELSE IF cb_raises THEN "observer_raised" ELSE "ok"]
    /\ UNCHANGED << config, diskVars, started, is_running, benchmark_runner,
                    benchmark_thread, replyVars >>

\* "model.cleanup(); del model": the explicit cleanup, then the last reference
\* goes away
CleanupModel(r) ==
    /\ pc[r] = "cleanup"
    /\ LET m == frame[r].model
       IN  adapters' = [adapters EXCEPT ![r][m] = Dropped(Cleaned(@))]
    /\ frame' = [frame EXCEPT ![r].model = "None"]
    /\ pc' = [pc EXCEPT ![r] = "aggregate"]
    /\ UNCHANGED << config, diskVars, started, runner, hist, apiVars >>

\* a benchmark_model_batch that finalizes whatever the dataset loop left
AlwaysHasResults(mr) == TRUE

\* "if model_results['detailed_results']:"
HasResults(mr) == mr.detailed_results # <<>>

\* a finalization that aggregates the records of the last dataset only
LastDatasetOnly(mr) ==
    LET dr == mr.detailed_results
        d  == dr[Len(dr)].dataset
    IN  [aggregated |-> [total_samples |->
                            Cardinality({i \in DOMAIN dr : dr[i].dataset = d})],
         end_time |-> "set"]
        @@ mr

\* aggregate_metrics over all entries and end_time
Finalized(mr) ==
    [aggregated |-> [total_samples |-> Len(mr.detailed_results)], end_time |-> "set"]
    @@ mr

\* a put that replaces the store by the new entry
PutAlone(store, m, mr) == (m :> mr)

\* "self.all_results[model_name] = model_results"
Put(store, m, mr) == (m :> mr) @@ store

\* "Aggregate all results": a model with entries is finalized and put in the
\* store, then _save_cache is called; one without entries returns None
AggregateModel(r) ==
    /\ pc[r] = "aggregate"
    /\ LET mr == frame[r].model_results
           m  == mr.model_name
           NoRecords == IF mr.detailed_results = <<>> THEN {m} ELSE {}
       IN  IF HasResults(mr)
           THEN /\ frame' = [frame EXCEPT ![r].model_results = Finalized(mr)]
                /\ runner' = [runner EXCEPT ![r].all_results = Put(@, m, Finalized(mr))]
                /\ hist' = [hist EXCEPT ![r].finished = @ \cup {m},
                                        ![r].failed = @ \cup NoRecords]
                /\ pc' = [pc EXCEPT ![r] = "save_open"]
           ELSE /\ pc' = [pc EXCEPT ![r] = "next_model"]
                /\ hist' = [hist EXCEPT ![r].failed = @ \cup NoRecords]
                /\ UNCHANGED << frame, runner >>
    /\ UNCHANGED << config, diskVars, started, adapters, apiVars >>


\* _save_cache, "open(cache_file, 'w')": the file is cut to length 0, unless
\* the open fails, which _save_cache swallows
SaveOpen(r) ==
    /\ pc[r] = "save_open"
    /\ \E ok \in BOOLEAN :
         IF ok THEN /\ cache_file' = TruncatedFile
                    /\ pc' = [pc EXCEPT ![r] = "save_dump"]
                    /\ hist' = [hist EXCEPT
                          ![r].save_calls = @ \cup {frame[r].model_results.model_name},
                          ![r].cache_before = cache_file,
                          ![r].target = runner[r].all_results,
                          ![r].in_save = TRUE]
               ELSE /\ UNCHANGED cache_file
                    /\ pc' = [pc EXCEPT ![r] = "next_model"]
                    /\ hist' = [hist EXCEPT
                          ![r].save_calls = @ \cup {frame[r].model_results.model_name},
                          ![r].save_failed = @ \cup {frame[r].model_results.model_name},
                          ![r].last_save = "open_failed"]
    /\ UNCHANGED << config, results_file, started, runner, frame, adapters, apiVars >>

\* a _save_cache that writes the result of the model just finished only
OnlyCurrentModel(r) ==
    LET m == frame[r].model_results.model_name
    IN  (m :> runner[r].all_results[m])

\* _save_cache: what json.dump is given, the whole store
SavedStore(r) == runner[r].all_results

\* _save_cache, "json.dump(self.all_results, f)": the whole store is written,
\* unless the write fails part way, which _save_cache swallows; then
\* _generate_visualizations, which touches none of the state here. (A file
\* that clear_cache removed since the open stays removed: the write goes to
\* the open file, which has no name any more.)
SaveDump(r) ==
    /\ pc[r] = "save_dump"
    /\ \E ok \in BOOLEAN :
         IF ok THEN /\ cache_file' = IF cache_file.exists
                                       THEN JsonFile(SavedStore(r)) ELSE NoFile
                    /\ hist' = [hist EXCEPT ![r].persisted = SavedStore(r),
                                            ![r].cache_before = NoFile,
                                            ![r].target = <<>>,
                                            ![r].in_save = FALSE,
                                            ![r].last_save = "ok"]
               ELSE /\ cache_file' = IF cache_file.exists THEN TruncatedFile ELSE NoFile
                    /\ hist' = [hist EXCEPT ![r].cache_before = NoFile,
                                            ![r].target = <<>>,
                                            ![r].in_save = FALSE,
                                            ![r].save_failed =
                                                @ \cup {frame[r].model_results.model_name},
                                            ![r].last_save = "write_failed"]
    /\ pc' = [pc EXCEPT ![r] = "next_model"]
    /\ UNCHANGED << config, results_file, started, runner, frame, adapters, apiVars >>

\* run() after the loop: "if self.all_results:"
Reports(r) ==
    /\ pc[r] = "reports"
    /\ IF runner[r].all_results # <<>>
       THEN /\ runner' = update_status(r, [status |-> "generating_reports"])
            /\ pc' = [pc EXCEPT ![r] = "generate_reports"]
       ELSE /\ pc' = [pc EXCEPT ![r] = "complete"]
            /\ UNCHANGED runner
    /\ UNCHANGED << config, diskVars, started, frame, adapters, hist, apiVars >>

\* save_json_report: json.dump of the store into results.json. Of that file
\* the model keeps which models it holds, not their numbers.
ReportOf(results) == [m \in DOMAIN results |-> [model_name |-> m]]

\* generate_reports: save_json_report writes results.json; every failure in
\* it (the open, the write, the chart data) is caught and printed
GenerateReports(r) ==
    /\ pc[r] = "generate_reports"
    /\ \E out \in {"ok", "open_fails", "write_fails"} :
         results_file' = CASE out = "ok"          -> JsonFile(ReportOf(runner[r].all_results))
                           [] out = "open_fails"  -> results_file
                           [] out = "write_fails" -> TruncatedFile
    /\ pc' = [pc EXCEPT ![r] = "complete"]
    /\ UNCHANGED << config, cache_file, started, runner, frame, adapters, hist, apiVars >>

\* run(): the last status update, after which run() returns
Complete(r) ==
    /\ pc[r] = "complete"
    /\ runner' = update_status(r, [status |-> "completed"])
    /\ pc' = [pc EXCEPT ![r] = "finally"]
    /\ UNCHANGED << config, diskVars, started, frame, adapters, hist, apiVars >>

\* the process ends after run() returned or the constructor raised (main.py,
\* __main__); its memory is gone
ExitProcess(r) ==
    /\ pc[r] = "finally"
    /\ pc' = [pc EXCEPT ![r] = "exited"]
    /\ runner' = [runner EXCEPT ![r] = NoRunner]
    /\ frame' = [frame EXCEPT ![r] = NoFrame]
    /\ adapters' = [adapters EXCEPT ![r] = <<>>]
    /\ hist' = [hist EXCEPT ![r] = NoHist]
    /\ UNCHANGED << config, diskVars, started, apiVars >>

\* the same, with the history of which models failed kept for the next run
ExitRemembered(r) ==
    /\ pc[r] = "finally"
    /\ pc' = [pc EXCEPT ![r] = "exited"]
    /\ runner' = [runner EXCEPT ![r] = NoRunner]
    /\ frame' = [frame EXCEPT ![r] = NoFrame]
    /\ adapters' = [adapters EXCEPT ![r] = <<>>]
    /\ hist' = [hist EXCEPT ![r] = [NoHist EXCEPT !.failed = hist[r].failed]]
    /\ UNCHANGED << config, diskVars, started, apiVars >>

\* the process is killed (an interrupt, a power cut) at any point of a run;
\* only the files stay. The history keeps what the run had persisted.
Crash(r) ==
    /\ Live(r)
    /\ pc' = [pc EXCEPT ![r] = "crashed"]
    /\ runner' = [runner EXCEPT ![r] = NoRunner]
    /\ frame' = [frame EXCEPT ![r] = NoFrame]
    /\ adapters' = [adapters EXCEPT ![r] = <<>>]
    /\ hist' = [hist EXCEPT ![r] =
                   [NoHist EXCEPT !.persisted = hist[r].persisted,
                                  !.cache_before = hist[r].cache_before,
                                  !.target = hist[r].target,
                                  !.in_save = hist[r].in_save]]
    /\ UNCHANGED << config, diskVars, started, apiVars >>

\* ------------------------------------------------------------ the dashboard
\* start_benchmark: "if is_running" rejects the request (nothing changes);
\* otherwise the handler starts the benchmark thread and answers "started"
StartBenchmark(r) ==
    /\ r = started + 1
    /\ ~is_running
    /\ started' = r
    /\ benchmark_thread' = r
    /\ pc' = [pc EXCEPT ![r] = "spawned"]
    /\ UNCHANGED << config, diskVars, runner, frame, adapters, hist, is_running,
                    benchmark_runner, current_sample, replyVars >>

\* run_benchmark, first statement: "is_running = True"
ThreadBegin(r) ==
    /\ pc[r] = "spawned"
    /\ is_running' = TRUE
    /\ pc' = [pc EXCEPT ![r] = "init"]
    /\ UNCHANGED << config, diskVars, started, runner, frame, adapters, hist,
                    benchmark_runner, benchmark_thread, current_sample, replyVars >>

\* run_benchmark: "benchmark_runner = runner" and set_sample_callback with the
\* function that stores the sample in current_sample
ApiWire(r) ==
    /\ pc[r] = "wire"
    /\ benchmark_runner' = r
    /\ runner' = [runner EXCEPT ![r].sample_callback = "api"]
    /\ pc' = [pc EXCEPT ![r] = "run"]
    /\ UNCHANGED << config, diskVars, started, frame, adapters, hist, is_running,
                    benchmark_thread, current_sample, replyVars >>

\* run_benchmark, "finally": reached after run() returned and after an
\* exception of the constructor or of run(); the thread ends. The runner
\* object lives on while benchmark_runner names it.
ThreadFinally(r) ==
    /\ pc[r] = "finally"
    /\ is_running' = FALSE
    /\ current_sample' = EmptySample
    /\ pc' = [pc EXCEPT ![r] = "exited"]
    /\ runner' = [runner EXCEPT ![r] = IF benchmark_runner = r THEN @ ELSE NoRunner]
    /\ frame' = [frame EXCEPT ![r] = NoFrame]
    /\ adapters' = [adapters EXCEPT ![r] = <<>>]
    /\ hist' = [hist EXCEPT ![r] = NoHist]
    /\ UNCHANGED << config, diskVars, started, benchmark_runner, benchmark_thread,
                    replyVars >>

\* a thread whose exception ends it without the "finally" clause
ThreadDies == "exited"

\* run_benchmark: an exception out of runner.run() is printed by "except
\* Exception" and the "finally" clause comes next
AfterRunError == "finally"

\* run() raises: the configuration file has the sections the constructor
\* reads but no 'models' list, so that "self.config['models']", which is
\* outside every try of run(), raises KeyError after the first status update
RunRaises(r) ==
    /\ pc[r] = "run"
    /\ runner[r].sample_callback = "api"
    /\ runner' = update_status(r, [status |-> "running"])
    /\ pc' = [pc EXCEPT ![r] = AfterRunError]
    /\ UNCHANGED << config, diskVars, started, frame, adapters, hist, apiVars >>

\* clear_cache: the cache file is removed when it exists (when it does not,
\* the handler answers "success" too and nothing changes); the runner that
\* benchmark_runner names and results.json are not touched
ClearCache ==
    /\ cache_file.exists
    /\ cache_file' = NoFile
    /\ UNCHANGED << config, results_file, started, pc, runner, frame, adapters, hist,
                    apiVars >>

\* what a json.load of the file gives the handlers of api.py: the data, or an
\* exception, which they answer with status 500
ErrorReply == [ok |-> FALSE, data |-> <<>>]
OkReply(d) == [ok |-> TRUE, data |-> d]

\* get_results: the cache file, updated with the store of the runner that
\* benchmark_runner names; without a cache file that store; without a runner
\* results.json; else {}
GetResults ==
    IF cache_file.exists
    THEN IF ~cache_file.valid THEN ErrorReply
         ELSE IF benchmark_runner # 0
              THEN OkReply(runner[benchmark_runner].all_results @@ cache_file.data)
              ELSE OkReply(cache_file.data)
    ELSE IF benchmark_runner # 0
         THEN OkReply(runner[benchmark_runner].all_results)
         ELSE IF results_file.exists
              THEN IF results_file.valid THEN OkReply(results_file.data) ELSE ErrorReply
              ELSE OkReply(<<>>)

\* get_cache_status: the keys of the cache file (their order is left out) and
\* whether the file exists; status 500 when the file cannot be parsed
CacheStatus ==
    IF cache_file.exists
    THEN IF ~cache_file.valid THEN [code |-> 500]
         ELSE [code |-> 200, cached_models |-> DOMAIN cache_file.data,
               cache_exists |-> TRUE]
    ELSE [code |-> 200, cached_models |-> {}, cache_exists |-> FALSE]

\* BenchmarkRunner.get_status: "self.current_status.copy()", one dict.copy
\* call; the copy is a value of its own
get_status(r) == runner[r].current_status

\* benchmark_thread.is_alive() if benchmark_thread else False
ThreadAlive == benchmark_thread # 0 /\ pc[benchmark_thread] \notin {"none", "exited"}

\* api.get_status: the copy of the status of the runner that benchmark_runner
\* names, with is_running, current_sample and thread_alive added; the idle
\* answer while there is no runner (the 'message' text is left out)
GetStatus ==
    /\ status_reply' =
          IF benchmark_runner # 0
          THEN [code |-> 200, is_running |-> is_running,
                current_sample |-> current_sample, thread_alive |-> ThreadAlive]
               @@ get_status(benchmark_runner)
          ELSE [code |-> 200, status |-> "idle", is_running |-> FALSE,
                current_sample |-> EmptySample, thread_alive |-> FALSE]
    /\ UNCHANGED << config, diskVars, started, pc, runner, frame, adapters, hist,
                    is_running, benchmark_runner, benchmark_thread, current_sample,
                    examples_request, examples_reply, fnVars >>

\* ------------------------------------------------------------ model examples
\* the lists an examples request is checked over: up to MaxDetailed records,
\* and limits up to MaxLimit
MaxDetailed == 9
MaxLimit    == 3

\* the 'wer' values of the records (a percentage)
WerValues == {0, 100}

\* a detailed_results list as the cache file holds it: record i has the id of
\* its place in the list (the fields the handler does not read are left out)
DetailedLists ==
    UNION { { [i \in 1..n |-> [id |-> "s" \o ToString(i), wer |-> w[i]]] :
                w \in [1..n -> WerValues] } : n \in 0..MaxDetailed }

Min(a, b) == IF a <= b THEN a ELSE b
Max(a, b) == IF a >= b THEN a ELSE b

\* key=lambda x: x.get('wer', 0)
WerKey(x) == IF "wer" \in DOMAIN x THEN x.wer ELSE 0

\* a "sort" that leaves the list as it is
Unsorted(seq) == seq

\* sorted(detailed_results, key=...): ascending by key, and stable - records
\* with equal keys keep their order
RECURSIVE SortByWer(_)
SortByWer(seq) ==
    IF seq = <<>> THEN <<>>
    ELSE LET n    == Len(seq)
             init == SortByWer(SubSeq(seq, 1, n - 1))
             x    == seq[n]
             k    == Cardinality({i \in DOMAIN init : WerKey(init[i]) <= WerKey(x)})
         IN  SubSeq(init, 1, k) \o << x >> \o SubSeq(init, k + 1, n - 1)

\* range(0, stop, step), for step >= 1
Range(stop, step) ==
    IF stop <= 0 THEN <<>>
    ELSE [j \in 1..((stop + step - 1) \div step) |-> (j - 1) * step]

\* "example = sorted_results[i].copy(); if 'id' in example: has_audio = True"
Example(x) == IF "id" \in DOMAIN x THEN [has_audio |-> TRUE] @@ x ELSE x

\* the body of get_model_examples once detailed_results is not empty; the
\* division by a limit of 0 raises, which the handler answers with status 500
Examples(model_name, detailed_results, limit) ==
    IF limit = 0 THEN [code |-> 500]
    ELSE LET sorted_results == SortByWer(detailed_results)
             n        == Len(sorted_results)
             step     == Max(n \div limit, 1)
             indices  == Range(Min(n, limit * step), step)
             examples == [j \in DOMAIN indices |-> Example(sorted_results[indices[j] + 1])]
         IN  [code |-> 200, model |-> model_name,
              examples |-> SubSeq(examples, 1, Min(limit, Len(examples))),
              total_samples |-> Len(detailed_results)]

\* get_model_examples: the results are read from the cache file, or from
\* results.json when there is no cache file; 404 without results or without
\* the model; 500 when the file read cannot be parsed
ExamplesReply(model_name, limit) ==
    LET file == IF cache_file.exists THEN cache_file ELSE results_file
    IN  IF file.exists /\ ~file.valid THEN [code |-> 500]
        ELSE IF ~file.exists \/ file.data = <<>> THEN [code |-> 404]
        ELSE IF model_name \notin DOMAIN file.data THEN [code |-> 404]
        ELSE LET model_data == file.data[model_name]
                 detailed_results == IF "detailed_results" \in DOMAIN model_data
                                     THEN model_data.detailed_results ELSE <<>>
             IN  IF detailed_results = <<>>
                 THEN [code |-> 200, model |-> model_name, examples |-> <<>>]
                 ELSE Examples(model_name, detailed_results, limit)

GetModelExamples ==
    /\ \E model_name \in {ModelName(i) : i \in 1..MaxModels}, limit \in 0..MaxLimit :
          /\ examples_request' = [model_name |-> model_name, limit |-> limit]
          /\ examples_reply' = ExamplesReply(model_name, limit)
    /\ UNCHANGED << config, diskVars, started, pc, runner, frame, adapters, hist,
                    is_running, benchmark_runner, benchmark_thread, current_sample,
                    status_reply, fnVars >>

\* The examples handler over the files it can find: a cache file that holds
\* the first model with any of the lists above, an unparsable one, or none,
\* and then a results.json or none. No benchmark is running.
ExamplesInit ==
    /\ config = [ok |-> FALSE, models |-> <<>>, datasets |-> <<>>]
    /\ cache_file \in {NoFile, TruncatedFile} \cup
          { JsonFile(ModelName(1) :> [model_name |-> ModelName(1),
                                      detailed_results |-> l]) : l \in DetailedLists }
    /\ results_file \in IF cache_file.exists THEN {NoFile}
                         ELSE {NoFile, JsonFile(ReportOf(ModelName(1) :> <<>>))}
    /\ started = 0
    /\ pc = [r \in Runs |-> "none"]
    /\ runner = [r \in Runs |-> NoRunner]
    /\ frame = [r \in Runs |-> NoFrame]
    /\ adapters = [r \in Runs |-> <<>>]
    /\ hist = [r \in Runs |-> NoHist]
    /\ is_running = FALSE
    /\ benchmark_runner = 0
    /\ benchmark_thread = 0
    /\ current_sample = EmptySample
    /\ status_reply = NoReply
    /\ examples_request = NoRequest
    /\ examples_reply = NoReply
    /\ fn_input = NoCall
    /\ fn_output = NoReply
    /\ registry = ImportedRegistry

SpecExamples == ExamplesInit /\ [][GetModelExamples]_vars

\* ------------------------------------------------------------ function calls
\* nothing is running and no file exists: the state in which one function of
\* utils.py or model.py is called on the arguments in fn_input
Quiet ==
    /\ config = [ok |-> FALSE, models |-> <<>>, datasets |-> <<>>]
    /\ cache_file = NoFile
    /\ results_file = NoFile
    /\ started = 0
    /\ pc = [r \in Runs |-> "none"]
    /\ runner = [r \in Runs |-> NoRunner]
    /\ frame = [r \in Runs |-> NoFrame]
    /\ adapters = [r \in Runs |-> <<>>]
    /\ hist = [r \in Runs |-> NoHist]
    /\ is_running = FALSE
    /\ benchmark_runner = 0
    /\ benchmark_thread = 0
    /\ current_sample = EmptySample
    /\ status_reply = NoReply
    /\ examples_request = NoRequest
    /\ examples_reply = NoReply
    /\ fn_output = NoReply
    /\ registry = ImportedRegistry

\* ------------------------------------------------------------ text metrics
\* A text is a sequence of characters. The characters here: two lower-case
\* letters, an upper-case one, the space, a punctuation mark and the
\* underscore; texts have up to MaxText characters.
MaxText == 3
Chars == {"a", "A", "b", " ", "!", "_"}
Texts == UNION { [1..n -> Chars] : n \in 0..MaxText }

\* a lower() that also strips the diaeresis
LowerUnaccented(c) == IF c = "A" THEN "a" ELSE IF c = "ü" THEN "u" ELSE c

\* str.lower() of one character; a lower-case letter, with or without a
\* diaeresis, is left as it is
Lower(c) == IF c = "A" THEN "a" ELSE c
\* the classes \s and \w of the re module on str patterns: \w is the Unicode
\* alphanumerics and "_"
IsSpace(c) == c = " "
IsWordChar(c) == c \in {"a", "A", "b", "_", "u", "ü"}

\* text.split(): the maximal runs of non-space characters
RECURSIVE Split(_)
Split(text) ==
    IF text = <<>> THEN <<>>
    ELSE LET c    == Head(text)
             rest == Split(Tail(text))
         IN  IF IsSpace(c) THEN rest
             ELSE IF Len(text) > 1 /\ ~IsSpace(text[2])
                  THEN << << c >> \o Head(rest) >> \o Tail(rest)
                  ELSE << << c >> >> \o rest

\* ' '.join(words)
RECURSIVE Join(_)
Join(words) ==
    IF words = <<>> THEN <<>>
    ELSE IF Len(words) = 1 THEN words[1]
    ELSE words[1] \o << " " >> \o Join(Tail(words))

\* normalize_text: lower(), re.sub(r'[^\w\s]', '', text), ' '.join(text.split())
normalize_text(text) ==
    IF text = <<>> THEN <<>>
    ELSE LET lowered == [i \in DOMAIN text |-> Lower(text[i])]
             Kept(c) == IsWordChar(c) \/ IsSpace(c)
         IN  Join(Split(SelectSeq(lowered, Kept)))

\* a test that knows the empty text only
OnlyEmpty(text) == text = <<>>

\* "not text or not text.strip()"
Blank(text) == text = <<>> \/ \A i \in DOMAIN text : IsSpace(text[i])

\* the edit distance (substitutions, deletions, insertions) of the first i
\* items of a and the first j items of b
RECURSIVE Levenshtein(_, _, _, _)
Levenshtein(a, b, i, j) ==
    IF i = 0 THEN j
    ELSE IF j = 0 THEN i
    ELSE LET sub == Levenshtein(a, b, i - 1, j - 1) + (IF a[i] = b[j] THEN 0 ELSE 1)
             del == Levenshtein(a, b, i - 1, j) + 1
             ins == Levenshtein(a, b, i, j - 1) + 1
         IN  Min(sub, Min(del, ins))

\* a float that is a ratio of two integers, in lowest terms
RECURSIVE GCD(_, _)
GCD(a, b) == IF b = 0 THEN a ELSE GCD(b, a % b)
Ratio(n, d) == LET g == GCD(n, d) IN [num |-> n \div g, den |-> d \div g]

\* jiwer.wer / jiwer.cer of two normalised texts, the reference not empty:
\* the edit distance of the word lists (of the characters) over the length
\* of the reference
jiwer_wer(ref, hyp) ==
    LET r == Split(ref)
        h == Split(hyp)
    IN  Ratio(Levenshtein(r, h, Len(r), Len(h)), Len(r))
jiwer_cer(ref, hyp) == Ratio(Levenshtein(ref, hyp, Len(ref), Len(hyp)), Len(ref))

\* what the library call can do: return the rate; for an empty hypothesis
\* some releases raise instead
JiwerOutcomes(hyp) == {"value"} \cup (IF hyp = <<>> THEN {"raise"} ELSE {})

\* a rate as a percentage, however large
Uncapped(rate) == Ratio(rate.num * 100, rate.den)

\* min(rate * 100, 100.0)
Cap(rate) ==
    IF rate.num * 100 <= 100 * rate.den THEN Ratio(rate.num * 100, rate.den)
    ELSE Ratio(100, 1)

\* calculate_wer and calculate_cer: the same code around jiwer.wer and
\* jiwer.cer; lib is what the library call does when it is reached
ErrorRate(reference, hypothesis, lib, unit) ==
    IF Blank(reference)
    THEN IF Blank(hypothesis) THEN Ratio(0, 1) ELSE Ratio(100, 1)
    ELSE LET ref_normalized == normalize_text(reference)
             hyp_normalized == normalize_text(hypothesis)
         IN  IF ref_normalized = <<>> THEN Ratio(0, 1)
             ELSE IF lib = "raise" THEN Ratio(100, 1)
             ELSE Cap(IF unit = "word" THEN jiwer_wer(ref_normalized, hyp_normalized)
                                       ELSE jiwer_cer(ref_normalized, hyp_normalized))

calculate_wer(reference, hypothesis, lib) == ErrorRate(reference, hypothesis, lib, "word")
calculate_cer(reference, hypothesis, lib) == ErrorRate(reference, hypothesis, lib, "char")

\* benchmark_model_batch, the two metrics of a sample and the fields 'wer'
\* and 'cer' of its result_entry
ScoreSample ==
    /\ fn_input.fn = "score"
    /\ fn_output = NoReply
    /\ \E lib \in JiwerOutcomes(normalize_text(fn_input.hypothesis)) :
          fn_output' = [wer |-> calculate_wer(fn_input.reference, fn_input.hypothesis, lib),
                        cer |-> calculate_cer(fn_input.reference, fn_input.hypothesis, lib)]
    /\ UNCHANGED << config, diskVars, started, pc, runner, frame, adapters, hist,
                    is_running, benchmark_runner, benchmark_thread, current_sample,
                    status_reply, examples_request, examples_reply, fn_input,
                    registry >>

\* every reference and every transcription, scored
MetricsInit ==
    /\ Quiet
    /\ fn_input \in { [fn |-> "score", reference |-> r, hypothesis |-> h] :
                         r \in Texts, h \in Texts }

SpecMetrics == MetricsInit /\ [][ScoreSample]_vars

\* texts with a letter that carries a diaeresis and the same letter without
\* it: every reference and every transcription of them, scored
AccentChars == {"a", "u", "ü", " "}
AccentTexts == UNION { [1..n -> AccentChars] : n \in 0..MaxText }
AccentInit ==
    /\ Quiet
    /\ fn_input \in { [fn |-> "score", reference |-> r, hypothesis |-> h] :
                         r \in AccentTexts, h \in AccentTexts }

SpecAccent == AccentInit /\ [][ScoreSample]_vars

\* normalize_text called on a text
NormalizeText ==
    /\ fn_input.fn = "normalize_text"
    /\ fn_output = NoReply
    /\ fn_output' = [text |-> normalize_text(fn_input.text)]
    /\ UNCHANGED << config, diskVars, started, pc, runner, frame, adapters, hist,
                    is_running, benchmark_runner, benchmark_thread, current_sample,
                    status_reply, examples_request, examples_reply, fn_input,
                    registry >>

\* every text, normalized
NormalizeInit ==
    /\ Quiet
    /\ fn_input \in { [fn |-> "normalize_text", text |-> t] : t \in Texts }

SpecNormalize == NormalizeInit /\ [][NormalizeText]_vars

\* ------------------------------------------------------------ model factory
\* the type names, paths and configs the factory is called with
TypeNames == Registry \cup {"vosk"}
ModelPaths == {"path_1", "path_2"}
AdapterConfigs == {"config_1", "config_2"}

\* a registration that does not replace a class registered before
KeepsFirst(reg, model_type, model_class) == reg @@ (model_type :> model_class)

\* "cls._registry[model_type] = model_class"
Registered(reg, model_type, model_class) == (model_type :> model_class) @@ reg

\* @ModelFactory.register(model_type) applied to a class
Register ==
    /\ \E model_type \in TypeNames, model_class \in Classes :
          /\ registry' = Registered(registry, model_type, model_class)
          /\ fn_input' = [fn |-> "register", model_type |-> model_type,
                          model_class |-> model_class]
          /\ fn_output' = [returned |-> model_class]
    /\ UNCHANGED << config, diskVars, started, pc, runner, frame, adapters, hist,
                    is_running, benchmark_runner, benchmark_thread, current_sample,
                    status_reply, examples_request, examples_reply >>

\* ModelFactory.create: ValueError with the registered names for a type that
\* is not registered; else the class registered under the type is called
\* with (model_path, config), and its constructor returns the instance or
\* raises (DeepgramModel without an API key)
Create ==
    /\ \E model_type \in TypeNames, model_path \in ModelPaths,
          cfg \in AdapterConfigs, built \in BOOLEAN :
          /\ fn_input' = [fn |-> "create", model_type |-> model_type,
                          model_path |-> model_path, config |-> cfg]
          /\ fn_output' =
                IF model_type \notin DOMAIN registry
                THEN [raised |-> "ValueError", available |-> DOMAIN registry,
                      constructed |-> <<>>]
                ELSE LET model_class == registry[model_type]
                         instance == [class |-> model_class, model_path |-> model_path,
                                      config |-> cfg, is_loaded |-> FALSE]
                     IN  IF built
                         THEN [raised |-> "None", returned |-> instance,
                               constructed |-> << instance >>]
                         ELSE [raised |-> "constructor", constructed |-> <<>>]
    /\ UNCHANGED << config, diskVars, started, pc, runner, frame, adapters, hist,
                    is_running, benchmark_runner, benchmark_thread, current_sample,
                    status_reply, examples_request, examples_reply, registry >>

FactoryInit ==
    /\ Quiet
    /\ fn_input = NoCall

SpecFactory == FactoryInit /\ [][Register \/ Create]_vars

\* ------------------------------------------------------------ aggregation
\* the lists aggregate_metrics is checked over: up to MaxResults records
MaxResults == 2

\* the four metrics of a record
MetricFields == {"wer", "cer", "latency", "throughput"}

\* what a record holds under a key it has: None, or a number
Null   == [null |-> TRUE, v |-> 0]
Num(x) == [null |-> FALSE, v |-> x]
FieldValues == {Null, Num(0), Num(50)}

\* a record has any of the four keys, each with any of these values
MetricRecords ==
    UNION { [keys -> FieldValues] : keys \in SUBSET MetricFields }
ResultLists == UNION { [1..n -> MetricRecords] : n \in 0..MaxResults }

\* an extraction that reads the records that have all four metrics only
FromCompleteRecords(results, f) ==
    LET HasAll(r) == \A g \in MetricFields : g \in DOMAIN r /\ ~r[g].null
        rows == SelectSeq(results, HasAll)
    IN  [i \in DOMAIN rows |-> rows[i][f].v]

\* [r.get(f, 0) for r in results if f in r and r[f] is not None]
Extract(results, f) ==
    LET Has(r) == f \in DOMAIN r /\ ~r[f].null
        rows == SelectSeq(results, Has)
    IN  [i \in DOMAIN rows |-> rows[i][f].v]

RECURSIVE SeqSum(_)
SeqSum(values) == IF values = <<>> THEN 0 ELSE Head(values) + SeqSum(Tail(values))
RECURSIVE SeqMin(_)
SeqMin(values) == IF Len(values) = 1 THEN values[1]
                  ELSE Min(Head(values), SeqMin(Tail(values)))
RECURSIVE SeqMax(_)
SeqMax(values) == IF Len(values) = 1 THEN values[1]
                  ELSE Max(Head(values), SeqMax(Tail(values)))

\* safe_stat for np.mean, np.min and np.max: 0.0 for no values (the
\* standard deviation and the percentiles are left out)
Stats(values) ==
    IF values = <<>>
    THEN [mean |-> Ratio(0, 1), min |-> Ratio(0, 1), max |-> Ratio(0, 1)]
    ELSE [mean |-> Ratio(SeqSum(values), Len(values)),
          min |-> Ratio(SeqMin(values), 1), max |-> Ratio(SeqMax(values), 1)]

\* aggregate_metrics; the key "wer_mean" is written wer.mean here
aggregate_metrics(results) ==
    IF results = <<>>
    THEN [wer |-> Stats(<<>>), cer |-> Stats(<<>>), latency |-> Stats(<<>>),
          throughput |-> Stats(<<>>), total_samples |-> 0]
    ELSE [wer |-> Stats(Extract(results, "wer")),
          cer |-> Stats(Extract(results, "cer")),
          latency |-> Stats(Extract(results, "latency")),
          throughput |-> Stats(Extract(results, "throughput")),
          total_samples |-> Len(results)]

Aggregate ==
    /\ fn_input.fn = "aggregate"
    /\ fn_output = NoReply
    /\ fn_output' = aggregate_metrics(fn_input.results)
    /\ UNCHANGED << config, diskVars, started, pc, runner, frame, adapters, hist,
                    is_running, benchmark_runner, benchmark_thread, current_sample,
                    status_reply, examples_request, examples_reply, fn_input,
                    registry >>

AggregateInit ==
    /\ Quiet
    /\ fn_input \in { [fn |-> "aggregate", results |-> l] : l \in ResultLists }

SpecAggregate == AggregateInit /\ [][Aggregate]_vars

\* ------------------------------------------------------------ the run itself
RunStep(r) ==
    \/ RunnerInit(r)
    \/ RunStart(r)
    \/ NextModel(r)
    \/ CheckCache(r)
    \/ CreateModel(r)
    \/ LoadModel(r)
    \/ NextDataset(r)
    \/ ProcessSample(r)
    \/ CleanupModel(r)
    \/ AggregateModel(r)
    \/ SaveOpen(r)
    \/ SaveDump(r)
    \/ Reports(r)
    \/ GenerateReports(r)
    \/ Complete(r)

Next ==
    \E r \in Runs :
        \/ StartProcess(r)
        \/ SetCallback(r)
        \/ RunStep(r)
        \/ ExitProcess(r)
        \/ Crash(r)

Spec == Init /\ [][Next]_vars

\* The dashboard process: start requests and the benchmark threads they start.
\* The configuration enables one model and one dataset here, which keeps two
\* threads running side by side within reach.
ApiInit ==
    /\ Init
    /\ config.ok => /\ \A i \in DOMAIN config.models : config.models[i].enabled <=> i = 1
                    /\ \A j \in DOMAIN config.datasets : config.datasets[j].enabled <=> j = 1

ApiNext ==
    \/ \E r \in Runs :
          \/ StartBenchmark(r)
          \/ ThreadBegin(r)
          \/ ApiWire(r)
          \/ RunStep(r)
          \/ ThreadFinally(r)
    \/ ClearCache

SpecApi == ApiInit /\ [][ApiNext]_vars

\* The dashboard polled for the status: start requests that arrive while no
\* benchmark thread is alive, the thread each one starts, and status requests
\* at any moment in between.
StatusNext ==
    \/ \E r \in Runs :
          \/ StartBenchmark(r) /\ \A q \in Runs : ~Live(q)
          \/ ThreadBegin(r)
          \/ ApiWire(r)
          \/ RunStep(r)
          \/ ThreadFinally(r)
    \/ GetStatus

SpecStatus == ApiInit /\ [][StatusNext]_vars

\* The dashboard with threads that the scheduler keeps running: a thread
\* that has been started executes until it ends. Start requests arrive when
\* they arrive.
ThreadStep(r) ==
    \/ ThreadBegin(r)
    \/ ApiWire(r)
    \/ RunStep(r)
    \/ RunRaises(r)
    \/ ThreadFinally(r)

DashboardNext ==
    \E r \in Runs :
        \/ StartBenchmark(r)
        \/ ThreadStep(r)

\* (the type of the second model, which is not enabled, plays no part)
DashboardInit ==
    /\ ApiInit
    /\ config.ok => config.models[2].type = "whisper"

SpecDashboard ==
    DashboardInit /\ [][DashboardNext]_vars /\ WF_vars(\E r \in Runs : ThreadStep(r))

\* clear_cache requested while no benchmark thread exists: the cache file is
\* removed if it is there, and the answer is "success" either way. The
\* request is kept with the number of runs started before it.
ClearCacheIdle ==
    /\ \A q \in Runs : ~Live(q)
    /\ cache_file' = NoFile
    /\ fn_input' = [fn |-> "clear_cache", after_run |-> started]
    /\ fn_output' = [code |-> 200, status |-> "success"]
    /\ UNCHANGED << config, results_file, started, pc, runner, frame, adapters, hist,
                    is_running, benchmark_runner, benchmark_thread, current_sample,
                    status_reply, examples_request, examples_reply, registry >>

\* The dashboard with cache resets between the runs
ResetNext ==
    \/ \E r \in Runs :
          \/ StartBenchmark(r)
          \/ ThreadStep(r)
    \/ ClearCacheIdle

SpecReset == DashboardInit /\ [][ResetNext]_vars

\* transcribe_with_metrics called on an adapter, loaded or not, whose
\* transcribe returns a text of up to MaxLength characters or raises, with a
\* measured time of up to MaxLatency
MaxLength  == 2
MaxLatency == 2

TranscribeWithMetrics ==
    /\ \E is_loaded \in BOOLEAN, outcome \in TranscribeOutcomes,
          length \in 0..MaxLength, latency \in 0..MaxLatency :
          /\ fn_input' = [fn |-> "transcribe_with_metrics", is_loaded |-> is_loaded,
                          outcome |-> outcome, length |-> length, latency |-> latency]
          /\ fn_output' = transcribe_with_metrics(is_loaded, outcome, length, latency)
    /\ UNCHANGED << config, diskVars, started, pc, runner, frame, adapters, hist,
                    is_running, benchmark_runner, benchmark_thread, current_sample,
                    status_reply, examples_request, examples_reply, registry >>

\* The sample pipeline of processes that are not killed, next to calls of
\* transcribe_with_metrics on any adapter. The configuration enables one
\* model and one dataset.
TranscribeNext ==
    \/ \E r \in Runs :
          \/ StartProcess(r)
          \/ SetCallback(r)
          \/ RunStep(r)
          \/ ExitProcess(r)
    \/ TranscribeWithMetrics

SpecTranscribe == ApiInit /\ [][TranscribeNext]_vars

\* Processes that are not killed: each one keeps executing until it ends.
\* The configuration enables at most the first dataset here.
LiveInit ==
    /\ Init
    /\ config.ok => \A j \in DOMAIN config.datasets : config.datasets[j].enabled => j = 1

LiveNext ==
    \E r \in Runs :
        \/ StartProcess(r)
        \/ SetCallback(r)
        \/ RunStep(r)
        \/ ExitProcess(r)

SpecLive == LiveInit /\ [][LiveNext]_vars /\ WF_vars(LiveNext)

\* One process after the other with the same configuration and the same
\* cache directory, none of them killed; what failed in a process that has
\* ended is remembered.
RerunNext ==
    \E r \in Runs :
        \/ StartNextProcess(r)
        \/ SetCallback(r)
        \/ RunStep(r)
        \/ ExitRemembered(r)

SpecRerun == LiveInit /\ [][RerunNext]_vars /\ WF_vars(RerunNext)

\* ------------------------------------------------------------ properties
RunPcs == {"run", "next_model", "bmb", "create", "load", "next_dataset", "sample",
           "cleanup", "aggregate", "save_open", "save_dump", "reports",
           "generate_reports", "complete"}

\* C1 (resumability): a run whose store, as loaded from the cache file, holds
\* an entry for model m never constructs an adapter for m - so it never loads
\* it and never transcribes with it - whatever happens to the other models.
C1_CachedModelNotRedone ==
    \A r \in Runs : \A m \in hist[r].cached_at_start :
        /\ m \notin DOMAIN adapters[r]
        /\ frame[r].model # m
        /\ pc[r] \in {"create", "load", "next_dataset", "sample", "cleanup"}
              => CurModel(r).name # m

\* C1 witness: a run that began with a model in its store has gone through
\* all the models of the configuration, the cached one among them.
C1_Witness ==
    \E r \in Runs :
        /\ pc[r] = "reports"
        /\ \E i \in DOMAIN config.models :
              /\ config.models[i].enabled
              /\ config.models[i].name \in hist[r].cached_at_start
        /\ hist[r].finished # {}

\* C2 (at most one run): no two executions of BenchmarkRunner.run overlap,
\* that is, at no time are two benchmark threads between the beginning of
\* their run() and its end.
C2_RunsNeverOverlap ==
    Cardinality({r \in Runs : pc[r] \in RunPcs}) <= 1

\* C3 as stated: when the adapter of the next model is about to be
\* constructed, every model that this run finished with records is in the
\* store, and the cache file holds the whole store.
C3_PersistedBeforeNextModel ==
    \A r \in Runs :
        (pc[r] = "create" /\ hist[r].finished # {})
            => /\ hist[r].finished \subseteq DOMAIN runner[r].all_results
               /\ LoadCache(cache_file) = runner[r].all_results

\* C3 amended: once a model finished with records and until the next one
\* finishes, that model is in the store and _save_cache has been called for
\* it (never deferred); the cache file holds the whole store provided the last
\* write succeeded - a failed write is swallowed and the run goes on.
C3_PersistAttemptedBeforeNextModel ==
    \A r \in Runs :
        (pc[r] \in {"next_model", "bmb", "create"} /\ hist[r].finished # {})
            => /\ hist[r].finished \subseteq DOMAIN runner[r].all_results
               /\ hist[r].finished \subseteq hist[r].save_calls
               /\ hist[r].last_save # "none"
               /\ hist[r].last_save = "ok"
                     => LoadCache(cache_file) = runner[r].all_results

\* C3 witness: the next adapter is about to be constructed after a model was
\* finished and written to the cache file.
C3_Witness ==
    \E r \in Runs :
        /\ pc[r] = "create"
        /\ hist[r].finished # {}
        /\ hist[r].last_save = "ok"
        /\ LoadCache(cache_file) = runner[r].all_results

\* C4 (crash resilience): when the process was killed after a persist of
\* this run had completed, a fresh load of the cache file gives the store as
\* that persist wrote it: the models persisted, in full, and none that had
\* not completed.
C4_CrashKeepsPersisted ==
    \A r \in Runs :
        (pc[r] = "crashed" /\ hist[r].persisted # <<>>)
            => LoadCache(cache_file) = hist[r].persisted

\* C5 (atomic persist): when the process was killed during a persist, a
\* load gives the store the file held before that persist began or the
\* store the persist was writing.
C5_PersistAtomic ==
    \A r \in Runs :
        (pc[r] = "crashed" /\ hist[r].in_save)
            => LoadCache(cache_file) \in {LoadCache(hist[r].cache_before), hist[r].target}

\* C6 (run always completes): whatever fails on the way - construction or
\* load of an adapter, a dataset, a sample, the reports - a run() that has
\* begun reaches its end, and it ends with the status "completed", which no
\* later status update replaces.
C6_RunEndsCompleted ==
    \A r \in Runs :
        (pc[r] = "run")
            ~> (pc[r] = "finally" /\ runner[r].current_status.status = "completed")

\* C6 witness: a run has ended "completed" although a model of it failed to
\* load and the report could not be written.
C6_Witness ==
    \E r \in Runs :
        /\ pc[r] = "finally"
        /\ runner[r].current_status.status = "completed"
        /\ runner[r].all_results # <<>>
        /\ results_file = TruncatedFile

\* the entry of sample i of dataset d is among the entries
HasEntry(entries, d, i) ==
    \E k \in DOMAIN entries : entries[k].id = SampleId(d, i)

\* C7 (model that cannot be built or loaded): an unregistered type never gets
\* an adapter; after a failed construction or load the model has no
\* transcription, no entry in the store and no persist, and the run is back
\* in its loop over the models, which it leaves only after the last enabled
\* model had its turn.
C7_FailedModelSkipped ==
    \A r \in Runs :
        /\ (Live(r) /\ frame[r].model_idx > 0 /\ CurModel(r).type \notin Registry)
              => /\ CurModel(r).name \notin DOMAIN adapters[r]
                 /\ pc[r] \notin {"load", "next_dataset", "sample", "cleanup",
                                  "aggregate", "save_open", "save_dump"}
        /\ hist[r].model_failure # "none"
              => LET m == CurModel(r).name
                 IN  /\ pc[r] = "next_model"
                     /\ m \notin DOMAIN runner[r].all_results
                     /\ m \notin hist[r].finished \cup hist[r].save_calls
                     /\ frame[r].model = "None"
                     /\ frame[r].model_results = NoModelResults
                     /\ m \in DOMAIN adapters[r]
                           => /\ adapters[r][m].transcribes = 0
                              /\ ~adapters[r][m].is_loaded
        /\ pc[r] = "reports" => NextEnabled(config.models, frame[r].model_idx) = 0

\* C7 witness: the load of a model has failed and a later enabled model is
\* still to come in the same run.
C7_Witness ==
    \E r \in Runs :
        /\ hist[r].model_failure = "load"
        /\ pc[r] = "next_model"
        /\ NextEnabled(config.models, frame[r].model_idx) # 0

\* C8 (cleanup exactly once): when the run moves on to the next model, the
\* adapter it constructed for the model before has had exactly one cleanup
\* call.
C8_CleanupExactlyOnce ==
    \A r \in Runs :
        pc[r] = "next_model"
            => \A m \in DOMAIN adapters[r] : adapters[r][m].cleanups = 1

C10_RaisedSampleHasNoRecord ==
    \A r \in Runs :
        hist[r].last_sample \in {"raised", "observer_raised"}
            => LET m == frame[r].model
               IN  /\ ~HasEntry(frame[r].model_results.detailed_results,
                               CurDataset(r).name, frame[r].sample_idx - 1)
                   /\ pc[r] \in {"sample", "next_dataset"}
                   /\ pc[r] = "sample" <=> frame[r].sample_idx < frame[r].samples
                   /\ m # "None" /\ adapters[r][m].is_loaded

\* C10 amended: a sample whose processing raised before its entry was appended
\* (in the transcription or the metrics) has no entry; one whose observer
\* raised has its entry, appended before the call; in both cases the run is at
\* the next sample of the dataset or, after the last one, at the next dataset,
\* with the adapter still loaded.
C10_RaisedBeforeAppendHasNoRecord ==
    \A r \in Runs :
        hist[r].last_sample \in {"raised", "observer_raised"}
            => LET m == frame[r].model
                   has == HasEntry(frame[r].model_results.detailed_results,
                                   CurDataset(r).name, frame[r].sample_idx - 1)
               IN  /\ hist[r].last_sample = "raised" => ~has
                   /\ hist[r].last_sample = "observer_raised" => has
                   /\ pc[r] \in {"sample", "next_dataset"}
                   /\ pc[r] = "sample" <=> frame[r].sample_idx < frame[r].samples
                   /\ m # "None" /\ adapters[r][m].is_loaded

\* C10 witness: the first sample of a dataset raised before its entry was
\* appended, and the next sample of the same dataset is about to be processed.
C10_Witness ==
    \E r \in Runs :
        /\ hist[r].last_sample = "raised"
        /\ pc[r] = "sample"
        /\ frame[r].sample_idx = 1
        /\ frame[r].model_results.detailed_results = <<>>

\* C11 (no empty model result): every entry of a runner's store and every
\* entry of the cache file has at least one record, and a model that ended
\* its dataset loop without records is in neither unless an earlier run had
\* put it there.
C11_NoEmptyEntryStored ==
    \A r \in Runs :
        /\ \A m \in DOMAIN runner[r].all_results :
              runner[r].all_results[m].detailed_results # <<>>
        /\ \A m \in DOMAIN LoadCache(cache_file) :
              LoadCache(cache_file)[m].detailed_results # <<>>
        /\ (pc[r] \in {"next_model", "save_open", "save_dump"}
            /\ frame[r].model_results # NoModelResults
            /\ frame[r].model_results.detailed_results = <<>>)
              => /\ pc[r] = "next_model"
                 /\ CurModel(r).name \notin DOMAIN runner[r].all_results
                 /\ CurModel(r).name \notin hist[r].finished \cup hist[r].save_calls

\* C11 witness: a model whose samples all raised has ended its dataset loop
\* and been cleaned up, with no record and no entry in the store.
C11_Witness ==
    \E r \in Runs :
        /\ pc[r] = "next_model"
        /\ frame[r].model_results # NoModelResults
        /\ frame[r].model_results.detailed_results = <<>>
        /\ frame[r].processed_samples > 0
        /\ CurModel(r).name \notin DOMAIN runner[r].all_results

DatasetIndex(d) == CHOOSE j \in 1..MaxDatasets : DatasetName(j) = d
SampleIndex(entry) ==
    CHOOSE i \in 0..MaxSamples : SampleId(entry.dataset, i) = entry.id

\* the entries are in dataset order and, within a dataset, in sample order
InSubmissionOrder(entries) ==
    \A i, j \in DOMAIN entries :
        i < j => \/ DatasetIndex(entries[i].dataset) < DatasetIndex(entries[j].dataset)
                 \/ /\ entries[i].dataset = entries[j].dataset
                    /\ SampleIndex(entries[i]) < SampleIndex(entries[j])

\* C13 (record order): the detailed_results of the model being benchmarked,
\* of every entry of a store and of every entry of the cache file are in
\* dataset order (config order) and, within a dataset, in the order the
\* samples were submitted.
C13_RecordsInSubmissionOrder ==
    \A r \in Runs :
        /\ frame[r].model_results # NoModelResults
              => InSubmissionOrder(frame[r].model_results.detailed_results)
        /\ InSubmissionOrder(frame[r].dataset_results)
        /\ \A m \in DOMAIN runner[r].all_results :
              InSubmissionOrder(runner[r].all_results[m].detailed_results)
        /\ \A m \in DOMAIN LoadCache(cache_file) :
              InSubmissionOrder(LoadCache(cache_file)[m].detailed_results)

\* C13 witness: a stored model has records of two samples of the first
\* dataset and of two samples of the second.
C13_Witness ==
    \E r \in Runs : \E m \in DOMAIN runner[r].all_results :
        LET entries == runner[r].all_results[m].detailed_results
        IN  /\ Len(entries) = 4
            /\ entries[1].dataset # entries[4].dataset

\* C14 (clearCache): right after clear_cache has removed the cache file, the
\* cache file does not exist and get_results answers with no model entry.
C14_ClearEmptiesResults ==
    [][ClearCache => /\ ~cache_file'.exists
                     /\ GetResults'.ok
                     /\ GetResults'.data = <<>>]_vars

\* C15 (merge view): while a model is being benchmarked and has records,
\* get_results answers with the entries of the cache file and an entry for
\* the model in flight that holds the records produced so far.
C15_ResultsShowModelInFlight ==
    \A r \in Runs :
        (/\ benchmark_runner = r
         /\ pc[r] \in {"sample", "next_dataset"}
         /\ frame[r].model_results.detailed_results # <<>>)
            => LET m == frame[r].model_results.model_name
               IN  /\ GetResults.ok
                   /\ DOMAIN LoadCache(cache_file) \subseteq DOMAIN GetResults.data
                   /\ m \in DOMAIN GetResults.data
                   /\ GetResults.data[m].detailed_results =
                         frame[r].model_results.detailed_results

\* C16 (load never fails): a run whose constructor found the cache file
\* missing or unparsable has a runner, an empty store at its start and no
\* model to skip: every enabled model it has come to was attempted, and the
\* run ends "completed".
C16_BadCacheStartsEmpty ==
    \A r \in Runs :
        (config.ok /\ hist[r].cache_at_start \in {"missing", "corrupt"})
            => /\ hist[r].cached_at_start = {}
               /\ pc[r] \in RunPcs \cup {"wire", "finally"}
               /\ pc[r] = "wire" => runner[r].all_results = <<>>
               /\ pc[r] = "finally" => runner[r].current_status.status = "completed"
               /\ (pc[r] = "next_model" /\ frame[r].model_idx > 0)
                     => \/ hist[r].model_failure # "none"
                        \/ CurModel(r).name \in DOMAIN adapters[r]

\* C16 witness: a run that found an unparsable cache file has benchmarked a
\* model.
C16_Witness ==
    \E r \in Runs :
        /\ hist[r].cache_at_start = "corrupt"
        /\ pc[r] = "next_model"
        /\ frame[r].model_idx > 0
        /\ CurModel(r).name \in hist[r].finished

\* C17 (failing persist): a model whose persist failed stays in the store,
\* the run goes on, and once a later persist of the run has succeeded the
\* cache file holds the model's entry as the store has it.
C17_FailedPersistLosesNothing ==
    \A r \in Runs : \A m \in hist[r].save_failed :
        /\ m \in DOMAIN runner[r].all_results
        /\ runner[r].all_results[m].detailed_results # <<>>
        /\ pc[r] \in RunPcs \cup {"finally"}
        /\ (hist[r].last_save = "ok" /\ pc[r] \notin {"save_open", "save_dump"})
              => /\ m \in DOMAIN LoadCache(cache_file)
                 /\ LoadCache(cache_file)[m] = runner[r].all_results[m]

\* C17 witness: the persist of the first model failed, the persist of the
\* second succeeded, and the cache file holds both.
C17_Witness ==
    \E r \in Runs :
        /\ hist[r].save_failed # {}
        /\ hist[r].last_save = "ok"
        /\ pc[r] = "next_model"
        /\ hist[r].save_failed \subseteq DOMAIN LoadCache(cache_file)

\* C18 (phase state machine): while a run is under way its status is one of
\* idle, loading_dataset, benchmarking, generating_reports, completed, and it
\* changes only along idle -> loading_dataset -> benchmarking ->
\* generating_reports -> completed (with benchmarking -> loading_dataset for
\* the next dataset or model); no failure brings an error phase.
C18_PhaseFollowsMachine ==
    [][\A r \in Runs :
          LET phases == {"idle", "loading_dataset", "benchmarking",
                         "generating_reports", "completed"}
              moves  == {<<"idle", "loading_dataset">>,
                         <<"loading_dataset", "benchmarking">>,
                         <<"benchmarking", "loading_dataset">>,
                         <<"benchmarking", "generating_reports">>,
                         <<"generating_reports", "completed">>}
              s == runner[r].current_status.status
              t == runner'[r].current_status.status
          IN  pc'[r] \in RunPcs \cup {"finally"}
                  => /\ t \in phases
                     /\ s # t => <<s, t>> \in moves]_vars

\* C19 (status snapshot): every answer of getStatus is a consistent snapshot.
\* The fields that one update_status call writes together are never seen half
\* written - the phase "benchmarking" comes with the model it is about, the
\* phase "loading_dataset" with the dataset it is about, and progress never
\* exceeds the total written with it; the answer holds the status of the
\* runner as it stood when the request ran; and an answer that was given is
\* changed by no step of the benchmark thread, only replaced by the next
\* request.
C19_StatusReplyIsSnapshot ==
    [][status_reply' # status_reply =>
          /\ runner' = runner /\ pc' = pc
          /\ benchmark_runner # 0 =>
                LET st == status_reply'
                IN  /\ \A k \in DOMAIN IdleStatus :
                          st[k] = runner[benchmark_runner].current_status[k]
                    /\ st.status = "benchmarking" => st.current_model # "None"
                    /\ st.status = "loading_dataset" =>
                          st.current_model # "None" /\ st.current_dataset # "None"
                    /\ st.progress <= st.total
                    /\ st.progress > 0 => st.current_dataset # "None"]_vars

\* C19: a status request was answered while the benchmark thread was in its
\* sample loop, after the first sample and before the last
C19_Witness ==
    /\ status_reply # NoReply
    /\ status_reply.is_running
    /\ status_reply.status = "loading_dataset"
    /\ status_reply.progress = 1
    /\ status_reply.total = 2
    /\ \E r \in Runs : pc[r] = "sample" /\ runner[r].current_status.progress = 1

\* the place of record i of the list in the list sorted by wer ascending,
\* counted from 0: the records with a smaller wer come before it, and so do
\* the earlier records with the same wer
SortedPlace(list, i) ==
    Cardinality({j \in DOMAIN list : list[j].wer < list[i].wer})
    + Cardinality({j \in 1..(i - 1) : list[j].wer = list[i].wer})

\* C20 (model examples): a request with limit >= 1 for a model whose entry
\* in the cache file has n detailed results is answered with exactly
\* min(limit, n) records, in ascending wer order; the k-th of them (from 0)
\* is the record at place k * s of the list sorted by wer ascending, where
\* s = max(n div limit, 1) - for n = 9 and limit = 3 the places 0, 3 and 6.
C20_ExamplesEvenlySpacedBySortedWer ==
    LET req == examples_request
    IN  (/\ req # NoRequest
         /\ req.limit >= 1
         /\ cache_file.exists /\ cache_file.valid
         /\ req.model_name \in DOMAIN cache_file.data) =>
            LET list == cache_file.data[req.model_name].detailed_results
                n    == Len(list)
                s    == IF n \div req.limit >= 1 THEN n \div req.limit ELSE 1
                out  == examples_reply.examples
            IN  /\ examples_reply.code = 200
                /\ Len(out) = (IF req.limit <= n THEN req.limit ELSE n)
                /\ \A k \in DOMAIN out :
                      \E i \in DOMAIN list :
                         /\ SortedPlace(list, i) = (k - 1) * s
                         /\ \A f \in DOMAIN list[i] : out[k][f] = list[i][f]
                /\ \A k, l \in DOMAIN out : k < l => out[k].wer <= out[l].wer
                /\ (n = 9 /\ req.limit = 3) =>
                      \A k \in 1..3 : \E i \in DOMAIN list :
                         SortedPlace(list, i) = 3 * (k - 1) /\ out[k].id = list[i].id

\* C20: three examples were asked of nine records that are not in wer order,
\* and the answer is not the records at places 0, 3, 6 of the list as stored
C20_Witness ==
    /\ examples_request.limit = 3
    /\ examples_reply.code = 200
    /\ cache_file.exists /\ cache_file.valid
    /\ examples_request.model_name \in DOMAIN cache_file.data
    /\ LET list == cache_file.data[examples_request.model_name].detailed_results
       IN  /\ Len(list) = 9
           /\ \E i \in 1..8 : list[i].wer > list[i + 1].wer
           /\ Len(examples_reply.examples) = 3
           /\ << examples_reply.examples[1].id, examples_reply.examples[2].id,
                  examples_reply.examples[3].id >> # << list[1].id, list[4].id, list[7].id >>

\* a percentage between 0 and 100
InPercentRange(x) == x.den > 0 /\ 0 <= x.num /\ x.num <= 100 * x.den

\* C21 (metric range): whatever the reference and the transcription are,
\* scoring the sample ends with a value - no exception - and the wer and the
\* cer stored in the sample's record are within [0, 100].
C21_WerCerWithinRange ==
    (fn_input.fn = "score" /\ fn_output # NoReply) =>
        /\ DOMAIN fn_output = {"wer", "cer"}
        /\ InPercentRange(fn_output.wer)
        /\ InPercentRange(fn_output.cer)

\* C21: a sample was scored whose transcription has more wrong words than
\* the reference has words (two against one); its wer is 100
C21_Witness ==
    /\ fn_input.fn = "score"
    /\ fn_output # NoReply
    /\ fn_input.reference = << "a" >>
    /\ fn_input.hypothesis = << "b", " ", "b" >>
    /\ fn_output.wer = [num |-> 100, den |-> 1]

\* C22 (empty inputs): a sample whose reference is empty or only spaces
\* scores wer = cer = 0 when the transcription is empty or only spaces too,
\* and wer = cer = 100 otherwise; a sample whose reference has a word (at
\* least one letter) and whose transcription is empty or only spaces scores
\* wer = cer = 100.
C22_EmptyInputRule ==
    (fn_input.fn = "score" /\ fn_output # NoReply) =>
        LET ref     == fn_input.reference
            hyp     == fn_input.hypothesis
            refNone == \A i \in DOMAIN ref : ref[i] = " "
            hypNone == \A i \in DOMAIN hyp : hyp[i] = " "
            refWord == \E i \in DOMAIN ref : ref[i] \in {"a", "A", "b"}
            zero    == [num |-> 0, den |-> 1]
            hundred == [num |-> 100, den |-> 1]
        IN  /\ (refNone /\ hypNone) => (fn_output.wer = zero /\ fn_output.cer = zero)
            /\ (refNone /\ ~hypNone) => (fn_output.wer = hundred /\ fn_output.cer = hundred)
            /\ (refWord /\ hypNone) => (fn_output.wer = hundred /\ fn_output.cer = hundred)

\* C22: a sample with a reference of spaces only and a transcription with a
\* letter was scored 100
C22_Witness ==
    /\ fn_input.fn = "score"
    /\ fn_output # NoReply
    /\ fn_input.reference = << " ", " " >>
    /\ fn_input.hypothesis = << "a" >>
    /\ fn_output.wer = [num |-> 100, den |-> 1]
    /\ fn_output.cer = [num |-> 100, den |-> 1]

\* C23 (wer of equal texts): for a reference that is not empty (it has a
\* letter), a transcription equal to it, or different from it in letter case
\* or in punctuation marks only, scores wer = 0.
C23_SameTextScoresZero ==
    (/\ fn_input.fn = "score" /\ fn_output # NoReply
     /\ \E i \in DOMAIN fn_input.reference : fn_input.reference[i] \in {"a", "A", "b"}
     /\ LET NotMark(c) == c \notin {"!", "_"}
            Plain(text) == LET kept == SelectSeq(text, NotMark)
                           IN  [i \in DOMAIN kept |-> IF kept[i] = "A" THEN "a" ELSE kept[i]]
        IN  Plain(fn_input.reference) = Plain(fn_input.hypothesis)) =>
        fn_output.wer = [num |-> 0, den |-> 1]

\* C24 (aggregation): the aggregate of no records is all zero with
\* total_samples = 0; for any records total_samples is their number, and the
\* statistics of each metric are taken over exactly the records that have a
\* number for that metric - a record without it (missing or null) is left
\* out there and still counts for the other metrics.
C24_TotalSamplesCountsEveryRecord ==
    (fn_input.fn = "aggregate" /\ fn_output # NoReply) =>
        LET results == fn_input.results
            zero    == [num |-> 0, den |-> 1]
        IN  /\ fn_output.total_samples = Len(results)
            /\ \A f \in {"wer", "cer", "latency", "throughput"} :
                  LET with == {i \in DOMAIN results :
                                  f \in DOMAIN results[i] /\ ~results[i][f].null}
                      fifty == {i \in with : results[i][f].v = 50}
                      st    == fn_output[f]
                  IN  /\ with = {} => (st.mean = zero /\ st.min = zero /\ st.max = zero)
                      /\ with # {} =>
                            /\ \E i \in with : st.max = [num |-> results[i][f].v, den |-> 1]
                            /\ \E i \in with : st.min = [num |-> results[i][f].v, den |-> 1]
                            /\ \A i \in with : /\ st.min.num <= results[i][f].v
                                                /\ results[i][f].v <= st.max.num
                            /\ st.mean.num * Cardinality(with)
                                  = st.mean.den * 50 * Cardinality(fifty)

\* C24: two records were aggregated, one of them without a wer and the
\* other one with a null latency; both count, each for the metrics it has
C24_Witness ==
    /\ fn_input.fn = "aggregate"
    /\ fn_output # NoReply
    /\ Len(fn_input.results) = 2
    /\ "wer" \notin DOMAIN fn_input.results[1]
    /\ "wer" \in DOMAIN fn_input.results[2] /\ fn_input.results[2].wer = Num(50)
    /\ "latency" \in DOMAIN fn_input.results[2] /\ fn_input.results[2].latency.null
    /\ "latency" \in DOMAIN fn_input.results[1] /\ fn_input.results[1].latency = Num(50)
    /\ fn_output.total_samples = 2
    /\ fn_output.wer.mean = [num |-> 50, den |-> 1]
    /\ fn_output.latency.max = [num |-> 50, den |-> 1]

\* C25 (model factory): a create call for a type that is not registered
\* raises ValueError with the registered type names, constructs no adapter
\* and leaves the registry as it was; a create call for a registered type
\* leaves the registry as it was too, constructs nothing but the instance it
\* returns, and that instance is of the class registered last under the
\* type - a registration replaces the class registered before - and is
\* built from the path and the config of the call.
C25_CreateFollowsRegistry ==
    [][/\ fn_input'.fn = "register" =>
             /\ DOMAIN registry' = DOMAIN registry \cup {fn_input'.model_type}
             /\ registry'[fn_input'.model_type] = fn_input'.model_class
             /\ \A t \in DOMAIN registry :
                   t # fn_input'.model_type => registry'[t] = registry[t]
       /\ fn_input'.fn = "create" =>
             /\ registry' = registry
             /\ fn_input'.model_type \notin DOMAIN registry =>
                   /\ fn_output'.raised = "ValueError"
                   /\ fn_output'.available = DOMAIN registry
                   /\ fn_output'.constructed = <<>>
             /\ fn_input'.model_type \in DOMAIN registry =>
                   /\ fn_output'.raised # "ValueError"
                   /\ fn_output'.raised = "None" =>
                         /\ fn_output'.returned.class = registry[fn_input'.model_type]
                         /\ fn_output'.returned.model_path = fn_input'.model_path
                         /\ fn_output'.returned.config = fn_input'.config
                         /\ fn_output'.constructed = << fn_output'.returned >>
                   /\ fn_output'.raised # "None" => fn_output'.constructed = <<>>]_vars

\* C25: a create call returned an instance of a class that was registered
\* over the class the type had at import
C25_Witness ==
    /\ fn_input.fn = "create"
    /\ fn_input.model_type = "whisper"
    /\ registry["whisper"] = "DeepgramModel"
    /\ fn_output.raised = "None"
    /\ fn_output.returned.class = "DeepgramModel"

\* C26 (transcription failure): when the transcribe of a loaded adapter
\* raises, transcribe_with_metrics does not raise: it returns a result with
\* an empty transcription and throughput 0. In the pipeline the sample whose
\* transcription failed gets its record: the entry of that sample is
\* appended to detailed_results and the loop goes on.
C26_TranscribeFailureIsRecorded ==
    [][/\ (/\ fn_input'.fn = "transcribe_with_metrics"
            /\ fn_input'.is_loaded /\ fn_input'.outcome = "raises") =>
               /\ fn_output'.raised = "None"
               /\ fn_output'.transcription = 0
               /\ fn_output'.throughput = 0
       /\ \A r \in Runs :
             (/\ pc[r] = "sample"
              /\ frame'[r].processed_samples = frame[r].processed_samples + 1
              /\ hist'[r].last_sample = "transcribe_failed"
              /\ adapters[r][frame[r].model].is_loaded) =>
                 LET d == config.datasets[frame[r].dataset_idx].name
                     id == d \o "_" \o ToString(frame[r].sample_idx)
                     before == frame[r].model_results.detailed_results
                     after  == frame'[r].model_results.detailed_results
                 IN  /\ Len(after) = Len(before) + 1
                     /\ SubSeq(after, 1, Len(before)) = before
                     /\ after[Len(after)].id = id
                     /\ after[Len(after)].dataset = d
                     /\ pc'[r] \in {"sample", "next_dataset"}]_vars

\* C26: the transcription of the first sample failed and the sample's entry
\* is in detailed_results, with the second sample still to come
C26_Witness ==
    \E r \in Runs :
        /\ pc[r] = "sample"
        /\ hist[r].last_sample = "transcribe_failed"
        /\ frame[r].sample_idx = 1
        /\ Len(frame[r].model_results.detailed_results) = 1
        /\ frame[r].model_results.detailed_results[1].id = "d1_0"

\* C27 (observer failure): when the progress observer raises for a sample,
\* the sample's entry is in detailed_results and the loop goes on with the
\* next sample or the end of the dataset; as long as the model is being
\* benchmarked no entry is removed from detailed_results; and the model is
\* then finalized: it is put in the store and _save_cache is called for it.
C27_ObserverFailureDoesNotAbort ==
    /\ [][\A r \in Runs :
            /\ (/\ pc[r] = "sample"
                 /\ frame'[r].processed_samples = frame[r].processed_samples + 1
                 /\ hist'[r].last_sample = "observer_raised") =>
                    LET after == frame'[r].model_results.detailed_results
                    IN  /\ Len(after) = Len(frame[r].model_results.detailed_results) + 1
                        /\ after[Len(after)].id =
                              config.datasets[frame[r].dataset_idx].name
                                 \o "_" \o ToString(frame[r].sample_idx)
                        /\ pc'[r] \in {"sample", "next_dataset"}
                        /\ pc'[r] = "sample" <=> frame'[r].sample_idx < frame[r].samples
            /\ (/\ pc[r] \in {"sample", "next_dataset", "cleanup"}
                 /\ pc'[r] \in {"sample", "next_dataset", "cleanup", "aggregate"}) =>
                    LET before == frame[r].model_results.detailed_results
                        after  == frame'[r].model_results.detailed_results
                    IN  Len(after) >= Len(before) /\ SubSeq(after, 1, Len(before)) = before
         ]_vars
    /\ \A r \in Runs : \A i \in 1..MaxModels :
          (/\ pc[r] \in {"sample", "next_dataset"}
           /\ hist[r].last_sample = "observer_raised"
           /\ frame[r].model = ModelName(i))
              ~> (/\ ModelName(i) \in DOMAIN runner[r].all_results
                  /\ ModelName(i) \in hist[r].save_calls)

\* C27: the observer raised for the first sample of a dataset; the entry of
\* that sample is in detailed_results and the second sample is next
C27_Witness ==
    \E r \in Runs :
        /\ pc[r] = "sample"
        /\ runner[r].sample_callback = "observer"
        /\ hist[r].last_sample = "observer_raised"
        /\ frame[r].sample_idx = 1
        /\ frame[r].samples = 2
        /\ Len(frame[r].model_results.detailed_results) = 1

\* C28 (finalized before stored): every entry of a run's store and of the
\* cache file has aggregated and end_time; a run puts an entry in its store
\* only for the model it is benchmarking, after the loop over the enabled
\* datasets has ended; and a model that is being benchmarked, or whose
\* benchmarking an exception has just ended, has no entry in the run's store
\* or in the cache file.
C28_StoredMeansFinalized ==
    /\ [](\A r \in Runs :
            /\ \A m \in DOMAIN runner[r].all_results :
                  /\ {"aggregated", "end_time"} \subseteq DOMAIN runner[r].all_results[m]
                  /\ runner[r].all_results[m].end_time = "set"
            /\ \A m \in DOMAIN LoadCache(cache_file) :
                  {"aggregated", "end_time"} \subseteq DOMAIN LoadCache(cache_file)[m]
            /\ pc[r] \in {"create", "load", "next_dataset", "sample", "cleanup",
                          "aggregate"} =>
                  /\ CurModel(r).name \notin DOMAIN runner[r].all_results
                  /\ CurModel(r).name \notin DOMAIN LoadCache(cache_file))
    /\ [][\A r \in Runs :
            /\ (pc[r] \in RunPcs /\ pc'[r] \in RunPcs) =>
                  \A m \in DOMAIN runner'[r].all_results \ DOMAIN runner[r].all_results :
                     /\ pc[r] = "aggregate"
                     /\ m = CurModel(r).name
                     /\ NextEnabled(config.datasets, frame[r].dataset_idx) = 0
                     /\ hist[r].model_failure = "none"
                     /\ hist[r].last_dataset # "iter_error"
            /\ (/\ pc[r] \in {"create", "load", "next_dataset"}
                 /\ pc'[r] = "next_model") =>
                  /\ CurModel(r).name \notin DOMAIN runner'[r].all_results
                  /\ CurModel(r).name \notin DOMAIN LoadCache(cache_file')
         ]_vars

\* C29 (reads during a persist): while a _save_cache that found a readable
\* cache file, or none, is between its open and the end of its write, the
\* cache file is the file as of before the persist or the file holding the
\* whole store being written, and a results, examples or cache-status request
\* made at that moment is not answered with an error.
C29_ReadsDuringPersistSeeWholeStore ==
    \A r \in Runs :
        (/\ hist[r].in_save
         /\ hist[r].cache_before.exists => hist[r].cache_before.valid) =>
            /\ cache_file \in {hist[r].cache_before, JsonFile(hist[r].target)}
            /\ GetResults.ok
            /\ CacheStatus.code = 200
            /\ \A i \in 1..MaxModels, limit \in 0..MaxLimit :
                  ExamplesReply(ModelName(i), limit).code # 500

\* C30 (one adapter at a time): in a run at most one adapter holds model
\* resources or is marked loaded, and it is the adapter of the model being
\* benchmarked; when the run turns to its next model, on any path (success,
\* no results, a failed construction or load, an exception out of the
\* dataset loop), every adapter it has built so far holds nothing, and a new
\* adapter is constructed only then.
C30_OneAdapterHoldsResources ==
    /\ [](\A r \in Runs :
            LET holding == {m \in DOMAIN adapters[r] :
                              adapters[r][m].resources \/ adapters[r][m].is_loaded}
            IN  /\ Cardinality(holding) <= 1
                /\ holding \subseteq {frame[r].model}
                /\ pc[r] \in {"next_model", "bmb", "create"} => holding = {})
    /\ [][\A r \in Runs :
            DOMAIN adapters'[r] \ DOMAIN adapters[r] # {} =>
                /\ pc[r] = "create"
                /\ \A m \in DOMAIN adapters[r] :
                      ~adapters[r][m].resources /\ ~adapters[r][m].is_loaded
         ]_vars

\* C30: an exception left the dataset loop of the first model while its
\* adapter was loaded; the finalizer has cleaned that adapter, once, and the
\* run turns to the second model
C30_Witness ==
    \E r \in Runs :
        /\ pc[r] = "next_model"
        /\ hist[r].last_dataset = "iter_error"
        /\ frame[r].model_idx = 1
        /\ NextEnabled(config.models, 1) = 2
        /\ ModelName(1) \in DOMAIN adapters[r]
        /\ adapters[r][ModelName(1)].cleanups = 1
        /\ ~adapters[r][ModelName(1)].resources
        /\ ~adapters[r][ModelName(1)].referenced

\* C31 (the run flag is always released): a benchmark thread that a start
\* request has started comes to its end, and when it ends - after run()
\* returned, after the constructor raised or after run() raised - is_running
\* is False and current_sample is the empty preview, so that the next start
\* request is accepted.
C31_StartedRunReleasesFlag ==
    /\ \A r \in Runs :
          (pc[r] = "spawned") ~>
             (pc[r] = "exited" /\ ~is_running /\ current_sample = EmptySample)
    /\ [][\A r \in Runs :
            (pc[r] # "exited" /\ pc'[r] = "exited") =>
                /\ pc[r] = "finally"
                /\ ~is_running'
                /\ current_sample' = EmptySample
                /\ (started < MaxRuns => ENABLED StartBenchmark(started + 1))'
         ]_vars

\* C31: run() of the first benchmark thread raised; the thread has ended,
\* is_running is False again and the preview is empty, and no other thread
\* has been started
C31_Witness ==
    /\ pc[1] = "exited"
    /\ started = 1
    /\ benchmark_runner = 1
    /\ runner[1].current_status.status = "running"
    /\ ~is_running
    /\ current_sample = EmptySample

\* C32 (progress counters): while a model is being benchmarked the number of
\* its records is at most the progress of the status, which is at most the
\* total of the status, and the same holds of the loop's own counters; every
\* attempted sample, recorded or skipped on an error, adds exactly 1 to
\* processed_samples, which the status then shows as progress together with
\* total_samples as total; and a dataset that is loaded with samples adds its
\* sample count to total_samples.
C32_RecordsProgressTotal ==
    /\ [](\A r \in Runs :
            "detailed_results" \in DOMAIN frame[r].model_results =>
                /\ Len(frame[r].model_results.detailed_results)
                      <= runner[r].current_status.progress
                /\ runner[r].current_status.progress <= runner[r].current_status.total
                /\ Len(frame[r].model_results.detailed_results)
                      <= frame[r].processed_samples
                /\ frame[r].processed_samples <= frame[r].total_samples)
    /\ [][\A r \in Runs :
            /\ (pc[r] = "sample" /\ pc'[r] \in RunPcs /\ frame'[r] # frame[r]) =>
                  /\ frame'[r].processed_samples = frame[r].processed_samples + 1
                  /\ frame'[r].total_samples = frame[r].total_samples
                  /\ runner'[r].current_status.progress = frame'[r].processed_samples
                  /\ runner'[r].current_status.total = frame'[r].total_samples
                  /\ Len(frame'[r].model_results.detailed_results)
                        \in {Len(frame[r].model_results.detailed_results),
                             Len(frame[r].model_results.detailed_results) + 1}
            /\ (pc[r] = "next_dataset" /\ pc'[r] = "sample") =>
                  /\ frame'[r].samples > 0
                  /\ frame'[r].total_samples = frame[r].total_samples + frame'[r].samples
                  /\ frame'[r].processed_samples = frame[r].processed_samples
         ]_vars

\* C32: the second sample of a dataset has been attempted, both attempts
\* were skipped on an error, and the status shows progress 2 of 2 while the
\* model has no record
C32_Witness ==
    \E r \in Runs :
        /\ pc[r] = "next_dataset"
        /\ "detailed_results" \in DOMAIN frame[r].model_results
        /\ frame[r].model_results.detailed_results = <<>>
        /\ hist[r].last_sample \in {"raised", "transcribe_failed"}
        /\ frame[r].processed_samples = 2
        /\ runner[r].current_status.progress = 2
        /\ runner[r].current_status.total = 2

\* C33 (sample counts agree): for every result a run has put in its store,
\* the samples of its datasets add up to the number of its detailed records
\* and to aggregated.total_samples, and the samples of each dataset is the
\* number of detailed records that name that dataset. (The datasets of a
\* configuration have pairwise distinct names here.)
C33_SampleCountsAgree ==
    \A r \in Runs :
        \A m \in hist[r].finished \cap DOMAIN runner[r].all_results :
            LET mr == runner[r].all_results[m]
                RECURSIVE SumSamples(_)
                SumSamples(ds) ==
                    IF ds = {} THEN 0
                    ELSE LET d == CHOOSE x \in ds : TRUE
                         IN  mr.datasets[d].samples + SumSamples(ds \ {d})
                Records(d) == {i \in DOMAIN mr.detailed_results :
                                 mr.detailed_results[i].dataset = d}
            IN  /\ \A i, j \in DOMAIN config.datasets :
                      i # j => config.datasets[i].name # config.datasets[j].name
                /\ SumSamples(DOMAIN mr.datasets) = Len(mr.detailed_results)
                /\ SumSamples(DOMAIN mr.datasets) = mr.aggregated.total_samples
                /\ \A d \in DOMAIN mr.datasets :
                      mr.datasets[d].samples = Cardinality(Records(d))

\* C33: a stored result over two datasets, the first with two records and the
\* second with one, whose sample loop skipped a sample on an error
C33_Witness ==
    \E r \in Runs :
        \E m \in hist[r].finished \cap DOMAIN runner[r].all_results :
            LET mr == runner[r].all_results[m]
            IN  /\ DOMAIN mr.datasets = {DatasetName(1), DatasetName(2)}
                /\ mr.datasets[DatasetName(1)].samples = 2
                /\ mr.datasets[DatasetName(2)].samples = 1
                /\ Len(mr.detailed_results) = 3
                /\ runner[r].current_status.progress = 4

\* C34 (failures are not cached): a model whose benchmark_model_batch ended
\* without a result - the adapter could not be constructed or loaded, an
\* exception left the dataset loop, or no sample gave a record - has no entry
\* in the store of its run or in the cache file, then, for the rest of the
\* run and until the next process starts; and that next process, with the
\* same configuration, does not skip that model: it goes on to construct
\* its adapter.
C34_FailuresAreNotCached ==
    /\ [](\A r \in Runs : \A m \in hist[r].failed :
            r = started =>
                /\ m \notin DOMAIN runner[r].all_results
                /\ m \notin DOMAIN LoadCache(cache_file))
    /\ [][\A r \in Runs :
            /\ (/\ pc[r] \in {"create", "load", "next_dataset", "aggregate"}
                 /\ pc'[r] = "next_model") =>
                   CurModel(r).name \in hist'[r].failed
            /\ (/\ pc[r] = "bmb"
                 /\ r > 1
                 /\ CurModel(r).name \in hist[r - 1].failed) =>
                   pc'[r] = "create"
         ]_vars
    /\ \A i \in 1..MaxModels :
          (/\ pc[2] = "init"
           /\ config.ok
           /\ config.models[i].enabled
           /\ ModelName(i) \in hist[1].failed)
             ~> (pc[2] = "create" /\ frame[2].model_idx = i)

\* C34: the second process is about to construct the adapter of a model that
\* the first process left with no records
C34_Witness ==
    /\ pc[2] = "create"
    /\ CurModel(2).name \in hist[1].failed
    /\ CurModel(2).name \notin DOMAIN LoadCache(cache_file)

\* C35 (a reset cache skips nothing): after a clear_cache that was answered
\* "success" while no run was active, the run that the next accepted start
\* request starts skips no model: for every enabled model it goes on to
\* construct the adapter.
C35_NextRunAfterClearSkipsNothing ==
    [][\A r \in Runs :
          (/\ pc[r] = "bmb"
           /\ fn_input.fn = "clear_cache"
           /\ fn_output.status = "success"
           /\ r = fn_input.after_run + 1) =>
              /\ CurModel(r).name \notin DOMAIN runner[r].all_results
              /\ pc'[r] \in {"bmb", "create"}
      ]_vars

\* C36 (the store only grows): the store of a run begins as the parsed cache
\* file, and no step of the run removes an entry from it or changes one: an
\* entry that is in the store stays in it with the same value, so every
\* model loaded at the start is there, unchanged, at every later state of
\* the run.
C36_StoreOnlyGrows ==
    /\ [](\A r \in Runs : hist[r].cached_at_start \subseteq DOMAIN runner[r].all_results)
    /\ [][\A r \in Runs :
            /\ (pc[r] = "init" /\ pc'[r] = "wire") =>
                  /\ runner'[r].all_results = LoadCache(cache_file)
                  /\ hist'[r].cached_at_start = DOMAIN LoadCache(cache_file)
            /\ (pc[r] \in RunPcs \cup {"wire"} /\ pc'[r] \in RunPcs \cup {"finally"}) =>
                  /\ hist'[r].cached_at_start = hist[r].cached_at_start
                  /\ \A m \in DOMAIN runner[r].all_results :
                        /\ m \in DOMAIN runner'[r].all_results
                        /\ runner'[r].all_results[m] = runner[r].all_results[m]
         ]_vars

\* C36: a run that began with the first model in its store has put the
\* second model next to it
C36_Witness ==
    \E r \in Runs :
        /\ pc[r] = "save_open"
        /\ hist[r].cached_at_start = {ModelName(1)}
        /\ DOMAIN runner[r].all_results = {ModelName(1), ModelName(2)}
        /\ runner[r].all_results[ModelName(1)] = LoadCache(cache_file)[ModelName(1)]

\* C37 (no status of an earlier run): an answer of getStatus with is_running
\* true holds the status of the runner of a run that is active when the
\* request is answered, not the status an earlier run has left.
C37_RunningStatusIsOfActiveRun ==
    [][(/\ status_reply' # status_reply
        /\ status_reply'.code = 200
        /\ status_reply'.is_running) =>
            /\ benchmark_runner # 0
            /\ Live(benchmark_runner)
            /\ \A k \in DOMAIN IdleStatus :
                  status_reply'[k] = runner[benchmark_runner].current_status[k]
      ]_vars

\* C38 (enabled entries, in config order): a run turns to a model only from
\* its loop over the models, and that model is the first enabled one after
\* the model it had before; it ends the loop only when no enabled model is
\* left. Within a model the same holds of the datasets. So an adapter is
\* built for enabled models only, records name enabled datasets only, and
\* the results the run puts in its store are of enabled models over enabled
\* datasets.
C38_EnabledEntriesInConfigOrder ==
    /\ [](\A r \in Runs :
            LET Enabled(entries) == {entries[i].name : i \in {j \in DOMAIN entries :
                                                               entries[j].enabled}}
            IN  /\ DOMAIN adapters[r] \subseteq Enabled(config.models)
                /\ hist[r].finished \subseteq Enabled(config.models)
                /\ pc[r] \in {"load", "next_dataset", "sample", "cleanup"} =>
                      config.models[frame[r].model_idx].enabled
                /\ pc[r] = "sample" => config.datasets[frame[r].dataset_idx].enabled
                /\ "detailed_results" \in DOMAIN frame[r].model_results =>
                      /\ \A i \in DOMAIN frame[r].model_results.detailed_results :
                            frame[r].model_results.detailed_results[i].dataset
                               \in Enabled(config.datasets)
                      /\ DOMAIN frame[r].model_results.datasets
                            \subseteq Enabled(config.datasets)
                /\ \A m \in hist[r].finished \cap DOMAIN runner[r].all_results :
                      DOMAIN runner[r].all_results[m].datasets
                         \subseteq Enabled(config.datasets))
    /\ [][\A r \in Runs :
            LET FirstEnabledAfter(entries, old, new) ==
                    /\ new \in DOMAIN entries
                    /\ new > old
                    /\ entries[new].enabled
                    /\ \A i \in DOMAIN entries : (old < i /\ i < new) => ~entries[i].enabled
                NoneEnabledAfter(entries, old) ==
                    \A i \in DOMAIN entries : i > old => ~entries[i].enabled
            IN  (pc[r] \in RunPcs /\ pc'[r] \in RunPcs) =>
                  /\ frame'[r].model_idx # frame[r].model_idx =>
                        /\ pc[r] = "next_model"
                        /\ FirstEnabledAfter(config.models, frame[r].model_idx,
                                             frame'[r].model_idx)
                  /\ (pc[r] = "next_model" /\ pc'[r] = "reports") =>
                        NoneEnabledAfter(config.models, frame[r].model_idx)
                  /\ (/\ frame'[r].dataset_idx # frame[r].dataset_idx
                       /\ frame'[r].model_idx = frame[r].model_idx) =>
                        /\ pc[r] = "next_dataset"
                        /\ FirstEnabledAfter(config.datasets, frame[r].dataset_idx,
                                             frame'[r].dataset_idx)
                  /\ (pc[r] = "next_dataset" /\ pc'[r] = "cleanup") =>
                        NoneEnabledAfter(config.datasets, frame[r].dataset_idx)
         ]_vars

\* C38: the first model and the first dataset are disabled; the run has
\* stored the second model, benchmarked over the second dataset alone, and
\* is back in its loop over the models
C38_Witness ==
    \E r \in Runs :
        /\ config.ok
        /\ ~config.models[1].enabled
        /\ ~config.datasets[1].enabled
        /\ pc[r] = "next_model"
        /\ frame[r].model_idx = 2
        /\ ModelName(2) \in hist[r].finished
        /\ ModelName(1) \notin DOMAIN runner[r].all_results
        /\ DOMAIN runner[r].all_results[ModelName(2)].datasets = {DatasetName(2)}

\* C39 (normalized text): what normalize_text returns has no uppercase
\* letter and no character other than letters, digits and single spaces -
\* no punctuation mark, no underscore -, neither begins nor ends with a
\* space and has no two spaces in a row; normalizing it again changes
\* nothing; and the empty text gives the empty text.
C39_NormalizedTextIsPlain ==
    (fn_input.fn = "normalize_text" /\ fn_output # NoReply) =>
        LET out == fn_output.text
        IN  /\ \A i \in DOMAIN out : out[i] \in {"a", "b", " "}
            /\ out # <<>> => (out[1] # " " /\ out[Len(out)] # " ")
            /\ \A i \in 1..(Len(out) - 1) : ~(out[i] = " " /\ out[i + 1] = " ")
            /\ normalize_text(out) = out
            /\ fn_input.text = <<>> => out = <<>>

\* C40 (as the code behaves): a transcription that is the reference with the
\* diaeresis dropped in exactly one word has that word counted as wrong: the
\* WER is 100 over the number of words of the reference (50.0 for a
\* reference of two words), and the CER is above zero.
C40_DroppedDiaeresisIsAWordError ==
    (fn_input.fn = "score" /\ fn_output # NoReply) =>
        LET ref == fn_input.reference
            hyp == fn_input.hypothesis
            Plain(c) == IF c = "ü" THEN "u" ELSE c
            rw == Split(ref)
            hw == Split(hyp)
            changed == { i \in DOMAIN rw : rw[i] # hw[i] }
        IN  (/\ Len(hyp) = Len(ref)
             /\ hyp = [i \in DOMAIN ref |-> Plain(ref[i])]
             /\ Cardinality(changed) = 1)
            => /\ fn_output.wer.num * Len(rw) = 100 * fn_output.wer.den
               /\ Len(rw) = 2 => fn_output.wer = [num |-> 50, den |-> 1]
               /\ fn_output.cer.num > 0

\* C40, witness: the reference "a ü" and the transcription "a u" have been
\* scored: WER 50.0, CER 100/3
C40_Witness ==
    /\ fn_input.fn = "score"
    /\ fn_input.reference = << "a", " ", "ü" >>
    /\ fn_input.hypothesis = << "a", " ", "u" >>
    /\ fn_output # NoReply
    /\ fn_output.wer = [num |-> 50, den |-> 1]
    /\ fn_output.cer = [num |-> 100, den |-> 3]

\* C40 (as stated): a transcription that is the reference with the diaeresis
\* dropped in one word gets WER = 0.0 and CER > 0.0.
C40_DroppedDiaeresisCostsNoWord ==
    (fn_input.fn = "score" /\ fn_output # NoReply) =>
        LET ref == fn_input.reference
            hyp == fn_input.hypothesis
            Bare(c) == IF c = "ü" THEN "u" ELSE c
            refw == Split(ref)
            hypw == Split(hyp)
            differing == { i \in DOMAIN refw : refw[i] # hypw[i] }
        IN  (/\ Len(hyp) = Len(ref)
             /\ hyp = [i \in DOMAIN ref |-> Bare(ref[i])]
             /\ Cardinality(differing) = 1)
            => /\ fn_output.wer.num = 0
               /\ fn_output.cer.num > 0
====
